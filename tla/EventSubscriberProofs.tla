------------------------ MODULE EventSubscriberProofs ------------------------
(* Theorems about the batches of the PA's event stack, for every set of agents, *)
(* channels, batch identifiers and expectations and for every bound.           *)
EXTENDS EventSubscriber, TLAPS

\* What is published, and what of it a batch may hold.
Published == [id : Nat, type : Types, key : Agents \cup Publishers \cup {"pa"},
              channel : Channels \cup {NoChannel}]
Batchable == {e \in Published : e.type \notin Immediate}

Call == [keys : SUBSET (UNION Expectable), fate : Fates, events : Seq(Batchable)]

\* evs holds one event for each of the keys that is not left, and nothing else.
Whole(keys, left, evs) ==
  /\ left \subseteq keys
  /\ \A k \in keys \ left : \E i \in DOMAIN evs : evs[i].key = k
  /\ \A i \in DOMAIN evs : evs[i].key \in keys \ left
  /\ \A i, j \in DOMAIN evs : evs[i].key = evs[j].key => i = j

BatchTypes ==
  /\ pending \in [Batches -> SUBSET (UNION Expectable)]
  /\ results \in [Batches -> Seq(Batchable)]
  /\ current \in [Batches -> Nat]
  /\ log \in Seq(Call)

\* The maps hold the open calls of expect, each with what it still lacks and what
\* it has; an identifier that is not active holds nothing.
BatchMaps ==
  /\ \A b \in Batches : current[b] = 0 => pending[b] = {} /\ b \notin timers
  /\ \A b \in Batches : current[b] # 0 =>
       /\ current[b] \in DOMAIN log
       /\ log[current[b]].fate = "open"
       /\ Whole(log[current[b]].keys, pending[b], results[b])
  /\ \A b, c \in Batches : current[b] # 0 /\ current[b] = current[c] => b = c

Reported == \A n \in DOMAIN log : log[n].fate = "complete" => Whole(log[n].keys, {}, log[n].events)

BatchInv == BatchTypes /\ BatchMaps /\ Reported /\ OpenHasTimer

-----------------------------------------------------------------------------

\* Taking an event whose key is still missing keeps the batch whole.
LEMMA WholeAppend ==
  ASSUME NEW keys, NEW left, NEW evs \in Seq(Batchable), NEW e \in Batchable,
         Whole(keys, left, evs), e.key \in left
  PROVE  Whole(keys, left \ {e.key}, Append(evs, e))
<1> DEFINE more == Append(evs, e)
<1>1. DOMAIN evs = 1..Len(evs) /\ DOMAIN more = 1..(Len(evs) + 1) /\ Len(evs) \in Nat
      /\ more[Len(evs) + 1] = e /\ \A i \in 1..Len(evs) : more[i] = evs[i]
  OBVIOUS
<1> HIDE DEF more
<1>2. \A k \in keys \ (left \ {e.key}) : \E i \in DOMAIN more : more[i].key = k
  BY <1>1 DEF Whole
<1>3. \A i \in DOMAIN more : more[i].key \in keys \ (left \ {e.key})
  BY <1>1 DEF Whole
<1>4. \A i, j \in DOMAIN more : more[i].key = more[j].key => i = j
  BY <1>1 DEF Whole
<1>5. left \ {e.key} \subseteq keys
  BY DEF Whole
<1> QED BY <1>2, <1>3, <1>4, <1>5 DEF Whole, more

\* The log when the call that b stands for ends.
Closed(b, fate, evs) == [log EXCEPT ![current[b]] = [@ EXCEPT !.fate = fate, !.events = evs]]

\* Closing the open call that b stands for keeps the invariant, provided that a
\* call reported complete is whole.
LEMMA EndKeeps ==
  ASSUME BatchInv, NEW b \in Batches, current[b] # 0, NEW fate \in Fates \ {"open"},
         NEW evs \in Seq(Batchable),
         fate = "complete" => Whole(log[current[b]].keys, {}, evs)
  PROVE  /\ Closed(b, fate, evs) \in Seq(Call)
         /\ DOMAIN Closed(b, fate, evs) = DOMAIN log /\ Len(Closed(b, fate, evs)) = Len(log)
         /\ \A n \in DOMAIN log : n # current[b] => Closed(b, fate, evs)[n] = log[n]
         /\ Closed(b, fate, evs)[current[b]].fate = fate
         /\ \A n \in DOMAIN Closed(b, fate, evs) : Closed(b, fate, evs)[n].fate = "complete" =>
              Whole(Closed(b, fate, evs)[n].keys, {}, Closed(b, fate, evs)[n].events)
<1>1. current[b] \in DOMAIN log /\ log \in Seq(Call) /\ log[current[b]] \in Call
  BY DEF BatchInv, BatchMaps, BatchTypes
<1> DEFINE new == [log[current[b]] EXCEPT !.fate = fate, !.events = evs]
           newLog == Closed(b, fate, evs)
<1>2. new \in Call /\ new.fate = fate /\ new.events = evs /\ new.keys = log[current[b]].keys
  BY <1>1 DEF Call
<1>3. newLog = [log EXCEPT ![current[b]] = new]
  BY <1>1 DEF Closed
<1> HIDE DEF new, newLog
<1>4. newLog \in Seq(Call) /\ DOMAIN newLog = DOMAIN log /\ Len(newLog) = Len(log)
  BY <1>1, <1>2, <1>3
<1>5. \A n \in DOMAIN log : newLog[n] = IF n = current[b] THEN new ELSE log[n]
  BY <1>1, <1>3
<1>6. \A n \in DOMAIN newLog :
        newLog[n].fate = "complete" => Whole(newLog[n].keys, {}, newLog[n].events)
  BY <1>2, <1>4, <1>5 DEF BatchInv, Reported
<1> QED BY <1>1, <1>2, <1>4, <1>5, <1>6 DEF newLog

\* A batch that ends and leaves the maps.
LEMMA ForgetKeeps ==
  ASSUME BatchInv, NEW b \in Batches, current[b] # 0, NEW fate \in Fates \ {"open"},
         NEW evs \in Seq(Batchable),
         fate = "complete" => Whole(log[current[b]].keys, {}, evs),
         log' = Closed(b, fate, evs), Forget(b)
  PROVE  BatchInv'
<1> DEFINE closed == Closed(b, fate, evs)
<1>a. /\ closed \in Seq(Call)
      /\ DOMAIN closed = DOMAIN log /\ Len(closed) = Len(log)
      /\ \A n \in DOMAIN log : n # current[b] => closed[n] = log[n]
      /\ closed[current[b]].fate = fate
      /\ \A n \in DOMAIN closed : closed[n].fate = "complete" =>
           Whole(closed[n].keys, {}, closed[n].events)
  BY EndKeeps, Zenon
<1> HIDE DEF closed
<1>b. log' = closed
  BY DEF closed
<1>1. /\ log' \in Seq(Call) /\ DOMAIN log' = DOMAIN log
      /\ \A n \in DOMAIN log : n # current[b] => log'[n] = log[n]
      /\ log'[current[b]].fate = fate
      /\ Reported'
  BY <1>a, <1>b DEF Reported
<1>2. BatchTypes'
  BY <1>1 DEF BatchInv, BatchTypes, Forget
<1>3. /\ current' = [current EXCEPT ![b] = 0] /\ pending' = [pending EXCEPT ![b] = {}]
      /\ results' = [results EXCEPT ![b] = <<>>] /\ timers' = timers \ {b}
  BY DEF Forget
<1>4. BatchMaps'
  BY <1>1, <1>3 DEF BatchInv, BatchTypes, BatchMaps
<1>5. OpenHasTimer'
  <2> SUFFICES ASSUME NEW n \in DOMAIN log', log'[n].fate = "open"
               PROVE  \E c \in Batches : current'[c] = n /\ c \in timers'
    BY DEF OpenHasTimer
  <2>1. n \in DOMAIN log /\ n # current[b] /\ log[n].fate = "open"
    BY <1>1
  <2>2. PICK c \in Batches : current[c] = n /\ c \in timers
    BY <2>1 DEF BatchInv, OpenHasTimer
  <2> QED BY <1>3, <2>1, <2>2 DEF BatchInv, BatchTypes
<1> QED BY <1>1, <1>2, <1>4, <1>5 DEF BatchInv

\* A call of expect, of a new identifier or of an active one, keeps the invariant.
LEMMA ExpectKeeps ==
  ASSUME BatchInv, NEW b \in Batches, NEW S \in Expectable, Expect(b, S)
  PROVE  BatchInv'
<1> DEFINE ended == IF Active(b) THEN Ended(b, "replaced") ELSE log
           new == [keys |-> S, fate |-> "open", events |-> <<>>]
<1>1. results[b] \in Seq(Batchable)
  BY DEF BatchInv, BatchTypes
<1>2. /\ ended \in Seq(Call) /\ DOMAIN ended = DOMAIN log /\ Len(ended) = Len(log)
      /\ \A n \in DOMAIN log : n # current[b] => ended[n] = log[n]
      /\ current[b] # 0 => ended[current[b]].fate # "open"
      /\ \A n \in DOMAIN ended : ended[n].fate = "complete" => Whole(ended[n].keys, {}, ended[n].events)
  <2>1. CASE Active(b)
    <3>1. ended = Closed(b, "replaced", results[b]) /\ current[b] # 0
      BY <2>1 DEF Active, Ended, Closed
    <3>2. "replaced" \in Fates \ {"open"} /\ "replaced" # "complete" /\ "replaced" # "open"
      BY DEF Fates
    <3> HIDE DEF ended
    <3> QED BY <1>1, <3>1, <3>2, EndKeeps
  <2>2. CASE ~Active(b)
    BY <2>2 DEF BatchInv, BatchTypes, Reported, Active
  <2> QED BY <2>1, <2>2
<1>3. new \in Call /\ new.fate = "open" /\ new.keys = S /\ new.events = <<>>
  BY DEF Call, Fates
<1>4. /\ log' = Append(ended, new) /\ current' = [current EXCEPT ![b] = Len(log) + 1]
      /\ pending' = [pending EXCEPT ![b] = S] /\ results' = [results EXCEPT ![b] = <<>>]
      /\ timers' = timers \cup {b}
  BY DEF Expect
<1>5. Whole(S, S, <<>>)
  BY DEF Whole
<1> HIDE DEF ended, new
<1>6. /\ log' \in Seq(Call) /\ DOMAIN log' = 1..(Len(log) + 1) /\ Len(log) \in Nat
      /\ log'[Len(log) + 1] = new /\ \A n \in DOMAIN log : log'[n] = ended[n]
      /\ DOMAIN log = 1..Len(log)
  BY <1>2, <1>3, <1>4 DEF BatchInv, BatchTypes
<1>7. BatchTypes'
  BY <1>4, <1>6 DEF BatchInv, BatchTypes
<1>8. BatchMaps'
  <2>1. current'[b] = Len(log) + 1 /\ pending'[b] = S /\ results'[b] = <<>>
    BY <1>4 DEF BatchInv, BatchTypes
  <2>2. \A c \in Batches : c # b => /\ current'[c] = current[c] /\ pending'[c] = pending[c]
                                    /\ results'[c] = results[c] /\ (c \in timers' => c \in timers)
    BY <1>4 DEF BatchInv, BatchTypes
  <2>3. \A c \in Batches : c # b /\ current[c] # 0 =>
          /\ current[c] \in DOMAIN log /\ current[c] # current[b] /\ current[c] # Len(log) + 1
          /\ log'[current[c]] = log[current[c]]
    BY <1>2, <1>6 DEF BatchInv, BatchMaps
  <2>4. \A c \in Batches : current'[c] = 0 => pending'[c] = {} /\ c \notin timers'
    BY <1>6, <2>1, <2>2 DEF BatchInv, BatchMaps
  <2>5. \A c \in Batches : current'[c] # 0 =>
          /\ current'[c] \in DOMAIN log'
          /\ log'[current'[c]].fate = "open"
          /\ Whole(log'[current'[c]].keys, pending'[c], results'[c])
    BY <1>3, <1>5, <1>6, <2>1, <2>2, <2>3 DEF BatchInv, BatchMaps
  <2>6. \A c, d \in Batches : current'[c] # 0 /\ current'[c] = current'[d] => c = d
    BY <2>1, <2>2, <2>3 DEF BatchInv, BatchMaps
  <2> QED BY <2>4, <2>5, <2>6 DEF BatchMaps
<1>9. Reported'
  BY <1>2, <1>3, <1>6 DEF Reported
<1>10. OpenHasTimer'
  <2> SUFFICES ASSUME NEW n \in DOMAIN log', log'[n].fate = "open"
               PROVE  \E c \in Batches : current'[c] = n /\ c \in timers'
    BY DEF OpenHasTimer
  <2>1. CASE n = Len(log) + 1
    BY <1>4, <2>1 DEF BatchInv, BatchTypes
  <2>2. CASE n # Len(log) + 1
    <3>1. n \in DOMAIN log /\ ended[n].fate = "open"
      BY <1>6, <2>2
    <3>2. n # current[b] /\ log[n].fate = "open"
      BY <1>2, <1>6, <3>1
    <3>3. PICK c \in Batches : current[c] = n /\ c \in timers
      BY <3>1, <3>2 DEF BatchInv, OpenHasTimer
    <3> QED BY <1>4, <3>2, <3>3 DEF BatchInv, BatchTypes
  <2> QED BY <2>1, <2>2
<1> QED BY <1>7, <1>8, <1>9, <1>10 DEF BatchInv

\* A batch that takes an event is active.
LEMMA TakesActive ==
  ASSUME BatchInv, NEW b \in Batches, NEW e, Takes(b, e)
  PROVE  current[b] # 0 /\ e.key \in pending[b]
BY DEF Takes, BatchInv, BatchMaps

\* Buffering an event that is not the last one keeps the invariant.
LEMMA BufferKeeps ==
  ASSUME BatchInv, NEW b \in Batches, NEW e \in Batchable, Buffer(b, e)
  PROVE  BatchInv'
<1>1. current[b] # 0 /\ e.key \in pending[b]
  BY TakesActive DEF Buffer
<1>2. /\ pending' = [pending EXCEPT ![b] = @ \ {e.key}]
      /\ results' = [results EXCEPT ![b] = Append(@, e)]
      /\ UNCHANGED <<timers, current, log>>
  BY DEF Buffer
<1>3. BatchTypes'
  BY <1>2 DEF BatchInv, BatchTypes
<1>4. Whole(log[current[b]].keys, pending[b] \ {e.key}, Append(results[b], e))
  BY <1>1, WholeAppend DEF BatchInv, BatchMaps, BatchTypes
<1>5. BatchMaps'
  BY <1>1, <1>2, <1>4 DEF BatchInv, BatchMaps, BatchTypes
<1> QED BY <1>2, <1>3, <1>5 DEF BatchInv, Reported, OpenHasTimer

\* The last event closes a batch that is whole.
LEMMA CompleteKeeps ==
  ASSUME BatchInv, NEW b \in Batches, NEW e \in Batchable, Complete(b, e)
  PROVE  BatchInv'
<1>1. current[b] # 0 /\ e.key \in pending[b] /\ pending[b] = {e.key}
  BY TakesActive DEF Complete
<1>2. Whole(log[current[b]].keys, pending[b] \ {e.key}, Append(results[b], e))
  BY <1>1, WholeAppend DEF BatchInv, BatchMaps, BatchTypes
<1>3. pending[b] \ {e.key} = {} /\ Append(results[b], e) \in Seq(Batchable)
  BY <1>1 DEF BatchInv, BatchTypes
<1> QED BY <1>1, <1>2, <1>3, ForgetKeeps, Zenon DEF Complete, Fates, Closed

\* A time-out and a cancellation keep the invariant.
LEMMA EndedKeeps ==
  ASSUME BatchInv, NEW b \in Batches, current[b] # 0, NEW fate \in {"timeout", "cancelled"},
         log' = Ended(b, fate), Forget(b)
  PROVE  BatchInv'
<1>1. results[b] \in Seq(Batchable)
  BY DEF BatchInv, BatchTypes
<1>2. fate \in Fates \ {"open"} /\ fate # "complete"
  BY DEF Fates
<1> QED BY <1>1, <1>2, ForgetKeeps DEF Ended, Closed

-----------------------------------------------------------------------------
(* The event stack.                                                        *)

SubInv == BatchInv /\ DetectorTypeOK /\ queue \in Seq(Published) /\ sent \in Nat

\* Initially there are no batches, no registrations and no events.
LEMMA SubInit == Init => SubInv
  BY DEF Init, BatcherInit, SubscriberInit, DetectorInit, DetectorTypeOK, SubInv, BatchInv, BatchTypes, BatchMaps, Reported, OpenHasTimer

\* A step that leaves the batcher alone keeps its invariant.
LEMMA BatchStutter == ASSUME BatchInv, UNCHANGED batcherVars PROVE BatchInv'
  BY DEF batcherVars, BatchInv, BatchTypes, BatchMaps, Reported, OpenHasTimer

\* What is published joins the queue or is lost.
LEMMA PublishTyped ==
  ASSUME queue \in Seq(Published), NEW e \in Published, Publish(e)
  PROVE  queue' \in Seq(Published)
BY DEF Publish

\* A step of the tick loop flags known channels and agents only.
LEMMA TickTyped ==
  ASSUME DetectorTypeOK, TickStep
  PROVE  /\ DetectorTypeOK'
         /\ stalledChannels' \ stalledChannels \subseteq Channels
         /\ erroredAgents' \ erroredAgents \subseteq Agents
<1>1. ASSUME NEW S \in SUBSET Agents, AgentsFrom(S), UNCHANGED <<activityVars, stalledChannels>>
      PROVE  DetectorTypeOK' /\ erroredAgents' \ erroredAgents \subseteq Agents
  BY <1>1 DEF AgentsFrom, DetectorTypeOK, activityVars
<1>2. ASSUME NEW S \in SUBSET Channels, ChannelsFrom(S), UNCHANGED activityVars
      PROVE  /\ DetectorTypeOK'
             /\ stalledChannels' \ stalledChannels \subseteq Channels
             /\ erroredAgents' \ erroredAgents \subseteq Agents
  <2>1. CASE AgentsFrom(silent) /\ UNCHANGED stalledChannels
    BY <1>1, <1>2, <2>1 DEF DetectorTypeOK
  <2>2. CASE \E c \in S \ stalledChannels, skipped \in SUBSET (S \cap stalledChannels) :
               /\ stalledChannels' = stalledChannels \cup {c}
               /\ tick' = "channels" /\ due' = S \ (skipped \cup {c})
               /\ UNCHANGED erroredAgents
    BY <1>2, <2>2 DEF DetectorTypeOK, activityVars
  <2> QED BY <1>2, <2>1, <2>2 DEF ChannelsFrom
<1>3. quiet \subseteq Channels
  BY DEF DetectorTypeOK
<1>4. CASE tick = "asleep"
  BY <1>2, <1>3, <1>4 DEF TickStep
<1>5. CASE tick = "channels"
  BY <1>2, <1>5 DEF TickStep, DetectorTypeOK
<1>6. CASE tick = "agents"
  BY <1>1, <1>6 DEF TickStep, DetectorTypeOK
<1> QED BY <1>4, <1>5, <1>6 DEF TickStep

\* Every step of the event stack preserves the invariant.
LEMMA SubStep == SubInv /\ [Next]_vars => SubInv'
<1> SUFFICES ASSUME SubInv, [Next]_vars PROVE SubInv'
  OBVIOUS
<1>a. BatchInv /\ DetectorTypeOK /\ queue \in Seq(Published) /\ sent \in Nat
  BY DEF SubInv
<1>1. CASE Receive
  <2> DEFINE e == Head(queue)
  <2>1. e \in Published /\ queue' \in Seq(Published) /\ sent' = sent
    BY <1>1, <1>a DEF Receive
  <2>2. e.type \notin Immediate => e \in Batchable
    BY <2>1 DEF Published, Batchable
  <2>3. Offer(e)
    BY <1>1 DEF Receive
  <2>5. DetectorTypeOK'
    BY <1>1, <1>a DEF Receive, RecordEvent, DetectorTypeOK
  <2> HIDE DEF e
  <2>4. BatchInv'
    BY <1>a, <2>2, <2>3, BufferKeeps, CompleteKeeps, BatchStutter, Zenon DEF Offer
  <2> QED BY <1>a, <2>1, <2>4, <2>5 DEF SubInv
<1>2. CASE Handled
  BY <1>2, <1>a, BatchStutter DEF Handled, SubInv, DetectorTypeOK, detectorVars
<1>3. CASE Tick
  <2>1. /\ DetectorTypeOK'
        /\ stalledChannels' \ stalledChannels \subseteq Channels
        /\ erroredAgents' \ erroredAgents \subseteq Agents
    BY <1>3, <1>a, TickTyped DEF Tick
  <2>2. \A c \in Channels : Event(0, "channel:stalled", "pa", c) \in Published
    BY DEF Event, Published, Types, Immediate
  <2>3. \A a \in Agents : Event(0, "agent:error", a, NoChannel) \in Published
    BY DEF Event, Published, Types, Immediate
  <2>4. queue' \in Seq(Published)
    BY <1>3, <1>a, <2>1, <2>2, <2>3, PublishTyped DEF Tick
  <2> QED BY <1>3, <1>a, <2>1, <2>4, BatchStutter DEF Tick, SubInv
<1>4. ASSUME NEW a \in Publishers, AgentEvent(a) PROVE SubInv'
  <2>1. sent' = sent + 1 /\ sent' \in Nat /\ UNCHANGED <<batcherVars, detectorVars>>
    BY <1>4, <1>a DEF AgentEvent
  <2>2. \A c \in Channels \cup {NoChannel}, type \in Types : Event(sent', type, a, c) \in Published
    BY <2>1 DEF Event, Published
  <2>3. queue' \in Seq(Published)
    <3>1. CASE Publish(Event(sent', "agent:heartbeat", a, NoChannel))
      BY <3>1, <1>a, <2>2, PublishTyped DEF Types
    <3>2. ASSUME NEW c \in Channels \cup {NoChannel}, NEW type \in {"agent:task_complete", "agent:task_blocked"},
                 Publish(Event(sent', type, a, c))
          PROVE  queue' \in Seq(Published)
      <4>1. Event(sent', type, a, c) \in Published
        BY <2>2 DEF Types
      <4> QED BY <1>a, <3>2, <4>1, PublishTyped
    <3> QED BY <1>4, <3>1, <3>2 DEF AgentEvent
  <2>4. DetectorTypeOK'
    BY <1>a, <2>1 DEF detectorVars, DetectorTypeOK
  <2> QED BY <1>a, <2>1, <2>3, <2>4, BatchStutter DEF SubInv
<1>5. ASSUME NEW b \in Batches, NEW S \in Expectable, ExpectBatch(b, S) PROVE SubInv'
  BY <1>5, <1>a, ExpectKeeps DEF ExpectBatch, subscriberVars, SubInv, DetectorTypeOK, detectorVars
<1>6. ASSUME NEW b \in Batches, BatchTimer(b) PROVE SubInv'
  <2>1. current[b] # 0
    BY <1>6, <1>a DEF BatchTimer, TimedOut, BatchInv, BatchMaps
  <2> QED BY <1>6, <1>a, <2>1, EndedKeeps DEF BatchTimer, TimedOut, subscriberVars, SubInv, DetectorTypeOK, detectorVars
<1>7. ASSUME NEW b \in Batches, CancelBatch(b) PROVE SubInv'
  BY <1>7, <1>a, EndedKeeps DEF CancelBatch, Cancel, Active, subscriberVars, SubInv, DetectorTypeOK, detectorVars
<1>8. CASE (\E c \in Channels : ChannelCall(c)) \/ (\E a \in Agents : AgentCall(a)) \/ Overdue
  <2>1. UNCHANGED <<batcherVars, queue, sent>>
    BY <1>8 DEF ChannelCall, AgentCall, Overdue, subscriberVars
  <2>2. DetectorTypeOK'
    BY <1>8, <1>a DEF ChannelCall, AgentCall, Overdue, RegisterChannel, UnregisterChannel,
       RegisterAgent, UnregisterAgent, BecomesQuiet, BecomesSilent, DetectorTypeOK
  <2> QED BY <1>a, <2>1, <2>2, BatchStutter DEF SubInv
<1>9. CASE ListenerDies \/ Start \/ BeginStop \/ FinishStop
  <2>1. UNCHANGED batcherVars /\ sent' = sent /\ (queue' = queue \/ queue' = <<>>)
    BY <1>9 DEF ListenerDies, Start, BeginStop, FinishStop
  <2>2. DetectorTypeOK'
    BY <1>9, <1>a DEF ListenerDies, Start, BeginStop, FinishStop, StartDetector, StopDetector, DetectorTypeOK,
       activityVars, detectorVars
  <2>3. queue' \in Seq(Published)
    <3>1. <<>> \in Seq(Published)
      OBVIOUS
    <3>2. queue' = queue \/ queue' = <<>>
      BY <2>1
    <3> QED BY <1>a, <3>1, <3>2
  <2> QED BY <1>a, <2>1, <2>2, <2>3, BatchStutter DEF SubInv
<1>10. CASE UNCHANGED vars
  BY <1>10, <1>a, BatchStutter DEF vars, subscriberVars, SubInv, DetectorTypeOK, detectorVars
<1> QED BY <1>1, <1>2, <1>3, <1>4, <1>5, <1>6, <1>7, <1>8, <1>9, <1>10 DEF Next

\* Every batch that is reported complete has exactly one event for every key its
\* call of expect asked for.
THEOREM CompleteBatches == Spec => []CompleteIsWhole
<1>1. SubInv => CompleteIsWhole
  BY DEF SubInv, BatchInv, Reported, Whole, CompleteIsWhole
<1> QED BY <1>1, SubInit, SubStep, PTL DEF Spec

\* Every call of expect that is open has an identifier and a timer.
THEOREM OpenExpectations == Spec => []OpenHasTimer
<1>1. SubInv => OpenHasTimer
  BY DEF SubInv, BatchInv
<1> QED BY <1>1, SubInit, SubStep, PTL DEF Spec

\* The detector's maps, flags and snapshots hold registered or known names only.
THEOREM DetectorTypes == Spec => []DetectorTypeOK
<1>1. SubInv => DetectorTypeOK
  BY DEF SubInv
<1> QED BY <1>1, SubInit, SubStep, PTL DEF Spec

\* No urgent event is ever held in a batch or reported in one.
THEOREM UrgentEvents == Spec => []UrgentNeverBatched
<1>1. SubInv => UrgentNeverBatched
  <2> SUFFICES ASSUME SubInv, NEW n \in DOMAIN log, NEW e \in Collected(n) PROVE e.type \notin Immediate
    BY DEF UrgentNeverBatched
  <2>1. log[n].events \in Seq(Batchable)
    <3>1. log \in Seq(Call)
      BY DEF SubInv, BatchInv, BatchTypes
    <3>2. log[n] \in Call
      BY <3>1
    <3> QED BY <3>2 DEF Call
  <2>2. \A b \in Batches : results[b] \in Seq(Batchable)
    BY DEF SubInv, BatchInv, BatchTypes
  <2>3. e \in Batchable
    BY <2>1, <2>2 DEF Collected
  <2> QED BY <2>3 DEF Batchable
<1> QED BY <1>1, SubInit, SubStep, PTL DEF Spec

-----------------------------------------------------------------------------
(* An event is collected once.  Agents number their events, so an event    *)
(* that a batch may hold has a number of its own; what is collected is no  *)
(* longer queued.                                                          *)

Numbered(e) == e.type \notin Immediate

OnceInv ==
  /\ \A i \in DOMAIN queue : Numbered(queue[i]) => queue[i].id <= sent
  /\ \A i, j \in DOMAIN queue :
       Numbered(queue[i]) /\ Numbered(queue[j]) /\ queue[i].id = queue[j].id => i = j
  /\ \A n \in DOMAIN log : \A e \in Collected(n) :
       /\ e.id <= sent
       /\ \A i \in DOMAIN queue : Numbered(queue[i]) => queue[i].id # e.id
  /\ CollectedOnce

\* Initially there is no event and no call.
LEMMA OnceInit == Init => OnceInv
  BY DEF Init, BatcherInit, SubscriberInit, OnceInv, CollectedOnce

\* What a call of expect has collected is in its entry of the log or in the
\* results of the identifier that stands for it.
LEMMA CollectedIs ==
  ASSUME NEW n, NEW e
  PROVE  e \in Collected(n) <=>
           \/ \E i \in DOMAIN log[n].events : e = log[n].events[i]
           \/ \E c \in Batches : current[c] = n /\ \E i \in DOMAIN results[c] : e = results[c][i]
  BY DEF Collected

\* The same of the next state.
LEMMA CollectedWillBe ==
  ASSUME NEW n, NEW e
  PROVE  e \in Collected(n)' <=>
           \/ \E i \in DOMAIN log'[n].events : e = log'[n].events[i]
           \/ \E c \in Batches : current'[c] = n /\ \E i \in DOMAIN results'[c] : e = results'[c][i]
  BY DEF Collected

\* A call of expect that ends keeps what the identifier held, plus at most the event
\* that completes it; the other calls keep what they have.
LEMMA ForgetCollects ==
  ASSUME BatchInv, NEW b \in Batches, current[b] # 0, NEW fate \in Fates \ {"open"},
         NEW evs \in Seq(Batchable), NEW new,
         \A i \in DOMAIN evs : evs[i] \in new \/ \E j \in DOMAIN results[b] : evs[i] = results[b][j],
         log' = Closed(b, fate, evs), Forget(b)
  PROVE  \A n \in DOMAIN log' : /\ n \in DOMAIN log
                                /\ Collected(n)' \subseteq
                                     Collected(n) \cup (IF n = current[b] THEN new ELSE {})
<1>1. current[b] \in DOMAIN log /\ log \in Seq(Call) /\ log[current[b]] \in Call
  BY DEF BatchInv, BatchMaps, BatchTypes
<1>2. /\ DOMAIN log' = DOMAIN log
      /\ \A n \in DOMAIN log : n # current[b] => log'[n] = log[n]
      /\ log'[current[b]].events = evs
  BY <1>1 DEF Closed, Call
<1>3. /\ current' = [current EXCEPT ![b] = 0]
      /\ results' = [results EXCEPT ![b] = <<>>]
  BY DEF Forget
<1>4. \A c \in Batches : current'[c] # 0 => current'[c] = current[c] /\ results'[c] = results[c]
  BY <1>3 DEF BatchInv, BatchTypes
<1>5. 0 \notin DOMAIN log
  BY <1>1
<1> SUFFICES ASSUME NEW n \in DOMAIN log, NEW e \in Collected(n)'
             PROVE  e \in Collected(n) \/ (n = current[b] /\ e \in new)
  BY <1>2
<1>6. CASE \E c \in Batches : current'[c] = n /\ \E i \in DOMAIN results'[c] : e = results'[c][i]
  BY <1>4, <1>5, <1>6, CollectedIs
<1>7. CASE \E i \in DOMAIN log'[n].events : e = log'[n].events[i]
  <2>1. CASE n = current[b]
    BY <1>2, <1>7, <2>1, CollectedIs
  <2>2. CASE n # current[b]
    BY <1>2, <1>7, <2>2, CollectedIs
  <2> QED BY <2>1, <2>2
<1> QED BY <1>6, <1>7, CollectedWillBe

\* A new call of expect starts with nothing and takes nothing from others.
LEMMA ExpectCollects ==
  ASSUME BatchInv, NEW b \in Batches, NEW S \in Expectable, Expect(b, S)
  PROVE  \A n \in DOMAIN log' :
           (n \in DOMAIN log /\ Collected(n)' \subseteq Collected(n)) \/ Collected(n)' = {}
<1> DEFINE ended == IF Active(b) THEN Ended(b, "replaced") ELSE log
           new == [keys |-> S, fate |-> "open", events |-> <<>>]
<1>1. log \in Seq(Call) /\ results[b] \in Seq(Batchable)
  BY DEF BatchInv, BatchTypes
<1>2. /\ DOMAIN ended = DOMAIN log /\ Len(ended) = Len(log) /\ ended \in Seq(Call)
      /\ \A n \in DOMAIN log : n # current[b] => ended[n].events = log[n].events
      /\ current[b] # 0 => ended[current[b]].events = results[b]
  <2>1. CASE Active(b)
    <3>1. ended = Closed(b, "replaced", results[b]) /\ current[b] # 0
      BY <2>1 DEF Active, Ended, Closed
    <3>2. "replaced" \in Fates \ {"open"} /\ "replaced" # "complete"
      BY DEF Fates
    <3>3. current[b] \in DOMAIN log /\ log[current[b]] \in Call
      BY <1>1, <3>1 DEF BatchInv, BatchMaps
    <3> HIDE DEF ended
    <3>4. DOMAIN ended = DOMAIN log /\ Len(ended) = Len(log) /\ ended \in Seq(Call)
          /\ \A n \in DOMAIN log : n # current[b] => ended[n] = log[n]
      BY <1>1, <3>1, <3>2, EndKeeps
    <3>5. ended[current[b]].events = results[b]
      BY <1>1, <3>1, <3>3 DEF Closed, Call
    <3> QED BY <3>4, <3>5
  <2>2. CASE ~Active(b)
    BY <1>1, <2>2 DEF Active
  <2> QED BY <2>1, <2>2
<1>3. /\ log' = Append(ended, new) /\ current' = [current EXCEPT ![b] = Len(log) + 1]
      /\ results' = [results EXCEPT ![b] = <<>>]
  BY DEF Expect
<1>4. new.events = <<>>
  OBVIOUS
<1> HIDE DEF ended, new
<1>5. /\ DOMAIN log' = 1..(Len(log) + 1) /\ DOMAIN log = 1..Len(log) /\ Len(log) \in Nat
      /\ log'[Len(log) + 1] = new /\ \A n \in DOMAIN log : log'[n] = ended[n]
  BY <1>1, <1>2, <1>3
<1>6. /\ current'[b] = Len(log) + 1 /\ DOMAIN results'[b] = {}
      /\ \A c \in Batches \ {b} : current'[c] = current[c] /\ results'[c] = results[c]
  BY <1>3 DEF BatchInv, BatchTypes
<1>7. \A c \in Batches \ {b} : current[c] # Len(log) + 1
  BY <1>1, <1>5 DEF BatchInv, BatchMaps
<1>8. ASSUME NEW n \in DOMAIN log, NEW e \in Collected(n)' PROVE e \in Collected(n)
  <2>1. CASE \E c \in Batches : current'[c] = n /\ \E i \in DOMAIN results'[c] : e = results'[c][i]
    BY <1>6, <2>1, CollectedIs
  <2>2. CASE \E i \in DOMAIN log'[n].events : e = log'[n].events[i]
    <3>1. CASE n = current[b]
      <4>1. current[b] # 0
        BY <1>5, <3>1
      <4> QED BY <1>2, <1>5, <2>2, <3>1, <4>1, CollectedIs
    <3>2. CASE n # current[b]
      BY <1>2, <1>5, <2>2, <3>2, CollectedIs
    <3> QED BY <3>1, <3>2
  <2> QED BY <1>8, <2>1, <2>2, CollectedWillBe
<1>9. ASSUME NEW n, n = Len(log) + 1 PROVE Collected(n)' = {}
  <2> SUFFICES ASSUME NEW e \in Collected(n)' PROVE FALSE
    OBVIOUS
  <2>1. DOMAIN log'[n].events = {}
    BY <1>4, <1>5, <1>9
  <2>2. \A c \in Batches : current'[c] = n => DOMAIN results'[c] = {}
    BY <1>6, <1>7, <1>9
  <2> QED BY <2>1, <2>2, CollectedWillBe
<1>10. \A n \in DOMAIN log' : n \in DOMAIN log \/ n = Len(log) + 1
  BY <1>5
<1> QED BY <1>8, <1>9, <1>10

\* A batch that takes an event and keeps it.
LEMMA BufferCollects ==
  ASSUME BatchInv, NEW b \in Batches, NEW e \in Batchable, Buffer(b, e)
  PROVE  \A n \in DOMAIN log' : /\ n \in DOMAIN log
                                /\ Collected(n)' \subseteq
                                     Collected(n) \cup (IF n = current[b] THEN {e} ELSE {})
<1>1. UNCHANGED <<current, log>> /\ results' = [results EXCEPT ![b] = Append(@, e)]
  BY DEF Buffer
<1>2. /\ \A c \in Batches \ {b} : results'[c] = results[c]
      /\ \A i \in DOMAIN results'[b] : results'[b][i] = e \/ \E j \in DOMAIN results[b] : results'[b][i] = results[b][j]
  <2>1. results[b] \in Seq(Batchable)
    BY DEF BatchInv, BatchTypes
  <2>2. results'[b] = Append(results[b], e) /\ \A c \in Batches \ {b} : results'[c] = results[c]
    BY <1>1 DEF BatchInv, BatchTypes
  <2> QED BY <2>1, <2>2
<1> SUFFICES ASSUME NEW n \in DOMAIN log, NEW f \in Collected(n)'
             PROVE  f \in Collected(n) \/ (n = current[b] /\ f = e)
  BY <1>1
<1>3. CASE \E i \in DOMAIN log'[n].events : f = log'[n].events[i]
  BY <1>1, <1>3, CollectedIs
<1>4. CASE \E c \in Batches : current'[c] = n /\ \E i \in DOMAIN results'[c] : f = results'[c][i]
  <2>1. PICK c \in Batches : current[c] = n /\ \E i \in DOMAIN results'[c] : f = results'[c][i]
    BY <1>1, <1>4
  <2>2. CASE c = b
    BY <1>2, <2>1, <2>2, CollectedIs
  <2>3. CASE c # b
    BY <1>2, <2>1, <2>3, CollectedIs
  <2> QED BY <2>2, <2>3
<1> QED BY <1>3, <1>4, CollectedWillBe

\* A batch that takes its last event.
LEMMA CompleteCollects ==
  ASSUME BatchInv, NEW b \in Batches, NEW e \in Batchable, Complete(b, e)
  PROVE  \A n \in DOMAIN log' : /\ n \in DOMAIN log
                                /\ Collected(n)' \subseteq
                                     Collected(n) \cup (IF n = current[b] THEN {e} ELSE {})
<1> DEFINE evs == Append(results[b], e)
<1>1. results[b] \in Seq(Batchable)
  BY DEF BatchInv, BatchTypes
<1>2. evs \in Seq(Batchable)
      /\ \A i \in DOMAIN evs : evs[i] \in {e} \/ \E j \in DOMAIN results[b] : evs[i] = results[b][j]
  BY <1>1
<1>3. current[b] # 0 /\ "complete" \in Fates \ {"open"}
  BY TakesActive DEF Complete, Fates
<1>4. log' = Closed(b, "complete", evs) /\ Forget(b)
  BY DEF Complete, Closed
<1> HIDE DEF evs
<1>5. PICK fate \in Fates \ {"open"} : fate = "complete"
  BY <1>3
<1>6. log' = Closed(b, fate, evs)
  BY <1>4, <1>5
<1> QED BY <1>2, <1>3, <1>4, <1>6, ForgetCollects, ZenonT(30)

\* A batch that ends with what it held.
LEMMA EndedCollects ==
  ASSUME BatchInv, NEW b \in Batches, current[b] # 0, NEW fate \in {"timeout", "cancelled"},
         log' = Ended(b, fate), Forget(b)
  PROVE  \A n \in DOMAIN log' : n \in DOMAIN log /\ Collected(n)' \subseteq Collected(n)
<1>1. results[b] \in Seq(Batchable) /\ fate \in Fates \ {"open"} /\ log' = Closed(b, fate, results[b])
  BY DEF BatchInv, BatchTypes, Fates, Ended, Closed
<1>2. \A i \in DOMAIN results[b] :
        results[b][i] \in {} \/ \E j \in DOMAIN results[b] : results[b][i] = results[b][j]
  OBVIOUS
<1>3. \A n \in DOMAIN log' : /\ n \in DOMAIN log
                             /\ Collected(n)' \subseteq Collected(n) \cup (IF n = current[b] THEN {} ELSE {})
  BY <1>1, <1>2, ForgetCollects, Zenon
<1> QED BY <1>3

\* Steps after which every call has collected what it had or less.
LEMMA OnceQuiet ==
  ASSUME OnceInv, sent' = sent, queue' \in {queue, <<>>},
         \A n \in DOMAIN log' :
           (n \in DOMAIN log /\ Collected(n)' \subseteq Collected(n)) \/ Collected(n)' = {}
  PROVE  OnceInv'
<1>1. \A i \in DOMAIN queue' : i \in DOMAIN queue /\ queue'[i] = queue[i]
  OBVIOUS
<1>2. \A n \in DOMAIN log' : \A e \in Collected(n)' : n \in DOMAIN log /\ e \in Collected(n)
  OBVIOUS
<1>3. CollectedOnce'
  <2>1. ASSUME NEW m \in DOMAIN log', NEW n \in DOMAIN log', m # n PROVE Collected(m)' \cap Collected(n)' = {}
    BY <1>2, <2>1 DEF OnceInv, CollectedOnce
  <2> QED BY <2>1 DEF CollectedOnce
<1>4. ASSUME NEW n \in DOMAIN log', NEW e \in Collected(n)'
      PROVE  /\ e.id <= sent'
             /\ \A i \in DOMAIN queue' : Numbered(queue'[i]) => queue'[i].id # e.id
  BY <1>1, <1>2 DEF OnceInv
<1>5. \A n \in DOMAIN log' : \A e \in Collected(n)' :
        /\ e.id <= sent'
        /\ \A i \in DOMAIN queue' : Numbered(queue'[i]) => queue'[i].id # e.id
  BY <1>4
<1>6. /\ \A i \in DOMAIN queue' : Numbered(queue'[i]) => queue'[i].id <= sent'
      /\ \A i, j \in DOMAIN queue' :
           Numbered(queue'[i]) /\ Numbered(queue'[j]) /\ queue'[i].id = queue'[j].id => i = j
  BY <1>1 DEF OnceInv
<1> QED BY <1>3, <1>5, <1>6 DEF OnceInv, Numbered

\* A batcher that is left alone has collected what it had.
LEMMA CollectedStutter ==
  ASSUME UNCHANGED batcherVars
  PROVE  \A n \in DOMAIN log' : n \in DOMAIN log /\ Collected(n)' \subseteq Collected(n)
  BY DEF batcherVars, Collected

\* What is collected is a batchable event.
LEMMA CollectedTyped ==
  ASSUME BatchInv, NEW n \in DOMAIN log, NEW e \in Collected(n) PROVE e \in Batchable
<1>1. log \in Seq(Call) /\ \A b \in Batches : results[b] \in Seq(Batchable)
  BY DEF BatchInv, BatchTypes
<1>2. log[n] \in Call
  BY <1>1
<1>3. log[n].events \in Seq(Batchable)
  BY <1>2 DEF Call
<1> QED BY <1>1, <1>3, CollectedIs

\* A publication takes a new number, or is urgent and has none.
LEMMA OncePublish ==
  ASSUME BatchInv, OnceInv, UNCHANGED batcherVars, sent \in Nat, queue \in Seq(Published),
         NEW e \in Published, Publish(e),
         (~Numbered(e) /\ sent' = sent) \/ (e.id = sent + 1 /\ sent' = sent + 1)
  PROVE  OnceInv'
<1>1. /\ sent <= sent' /\ sent' \in Nat
      /\ \A i \in DOMAIN queue : queue[i].id \in Nat
  <2>1. \A i \in DOMAIN queue : queue[i] \in Published
    OBVIOUS
  <2>2. \A f \in Published : f.id \in Nat
    BY DEF Published
  <2>3. sent <= sent' /\ sent' \in Nat
    OBVIOUS
  <2> QED BY <2>1, <2>2, <2>3
<1>2. \A i \in DOMAIN queue' :
        \/ i \in DOMAIN queue /\ queue'[i] = queue[i]
        \/ i = Len(queue) + 1 /\ i \notin DOMAIN queue /\ queue'[i] = e
  BY DEF Publish
<1>3. \A n \in DOMAIN log' : \A f \in Collected(n)' :
        n \in DOMAIN log /\ f \in Collected(n) /\ f.id \in Nat
  BY CollectedStutter, CollectedTyped DEF Batchable, Published
<1>4. CollectedOnce'
  <2>1. ASSUME NEW m \in DOMAIN log', NEW n \in DOMAIN log', m # n PROVE Collected(m)' \cap Collected(n)' = {}
    BY <1>3, <2>1 DEF OnceInv, CollectedOnce
  <2> QED BY <2>1 DEF CollectedOnce
<1>5. \A i \in DOMAIN queue' : Numbered(queue'[i]) => queue'[i].id <= sent'
  <2>1. \A i \in DOMAIN queue : Numbered(queue[i]) => queue[i].id <= sent
    BY DEF OnceInv
  <2> QED BY <1>1, <1>2, <2>1
<1>6. ASSUME NEW i \in DOMAIN queue', NEW j \in DOMAIN queue', Numbered(queue'[i]), Numbered(queue'[j]),
             queue'[i].id = queue'[j].id
      PROVE  i = j
  <2>1. \A k \in DOMAIN queue : Numbered(queue[k]) => queue[k].id < sent + 1
    BY <1>1 DEF OnceInv
  <2>2. CASE i \in DOMAIN queue /\ queue'[i] = queue[i] /\ j \in DOMAIN queue /\ queue'[j] = queue[j]
    BY <1>6, <2>2 DEF OnceInv
  <2>3. CASE i \in DOMAIN queue /\ queue'[i] = queue[i] /\ queue'[j] = e
    BY <1>1, <1>6, <2>1, <2>3
  <2>4. CASE queue'[i] = e /\ j \in DOMAIN queue /\ queue'[j] = queue[j]
    BY <1>1, <1>6, <2>1, <2>4
  <2> QED BY <1>2, <2>2, <2>3, <2>4
<1>7. ASSUME NEW n \in DOMAIN log', NEW f \in Collected(n)'
      PROVE  f.id <= sent' /\ \A i \in DOMAIN queue' : Numbered(queue'[i]) => queue'[i].id # f.id
  <2>1. f.id <= sent /\ f.id \in Nat /\ \A i \in DOMAIN queue : Numbered(queue[i]) => queue[i].id # f.id
    BY <1>3 DEF OnceInv
  <2> QED BY <1>1, <1>2, <2>1
<1>8. \A n \in DOMAIN log' : \A f \in Collected(n)' :
        f.id <= sent' /\ \A i \in DOMAIN queue' : Numbered(queue'[i]) => queue'[i].id # f.id
  BY <1>7
<1>9. \A i, j \in DOMAIN queue' :
        Numbered(queue'[i]) /\ Numbered(queue'[j]) /\ queue'[i].id = queue'[j].id => i = j
  BY <1>6
<1> QED BY <1>4, <1>5, <1>8, <1>9 DEF OnceInv, Numbered

\* The event at the head of the queue leaves it and is collected for one call of
\* expect or for none.
LEMMA OnceReceive ==
  ASSUME BatchInv, OnceInv, sent \in Nat, queue \in Seq(Published), queue # <<>>,
         queue' = Tail(queue), sent' = sent, NEW new,
         new \subseteq {Head(queue)}, Numbered(Head(queue)) \/ new = {},
         NEW m,
         \A n \in DOMAIN log' : /\ n \in DOMAIN log
                                /\ Collected(n)' \subseteq Collected(n) \cup (IF n = m THEN new ELSE {})
  PROVE  OnceInv'
<1> DEFINE e == Head(queue)
<1>1. /\ 1 \in DOMAIN queue /\ queue[1] = e /\ e \in Published
      /\ \A i \in DOMAIN queue' : i + 1 \in DOMAIN queue /\ queue'[i] = queue[i + 1] /\ i + 1 # 1 /\ i \in Nat
  OBVIOUS
<1> HIDE DEF e
<1>2. \A i \in DOMAIN queue' : Numbered(queue'[i]) => queue'[i].id <= sent'
  BY <1>1 DEF OnceInv
<1>3. \A i, j \in DOMAIN queue' :
        Numbered(queue'[i]) /\ Numbered(queue'[j]) /\ queue'[i].id = queue'[j].id => i = j
  <2> SUFFICES ASSUME NEW i \in DOMAIN queue', NEW j \in DOMAIN queue',
                      Numbered(queue'[i]), Numbered(queue'[j]), queue'[i].id = queue'[j].id
               PROVE  i = j
    OBVIOUS
  <2>1. i + 1 = j + 1
    BY <1>1 DEF OnceInv
  <2> QED BY <1>1, <2>1
<1>4. ASSUME NEW n \in DOMAIN log', NEW f \in Collected(n)'
      PROVE  \/ f \in Collected(n)
             \/ n = m /\ f = e /\ Numbered(e)
  BY DEF e
<1>5. ASSUME NEW n \in DOMAIN log', NEW f \in Collected(n)'
      PROVE  f.id <= sent' /\ \A i \in DOMAIN queue' : Numbered(queue'[i]) => queue'[i].id # f.id
  <2>1. CASE f \in Collected(n)
    BY <1>1, <2>1 DEF OnceInv
  <2>2. CASE f = e /\ Numbered(e)
    <3>1. e.id <= sent
      BY <1>1, <2>2 DEF OnceInv
    <3>2. \A i \in DOMAIN queue' : Numbered(queue'[i]) => queue'[i].id # e.id
      BY <1>1, <2>2 DEF OnceInv
    <3> QED BY <2>2, <3>1, <3>2
  <2> QED BY <1>4, <2>1, <2>2
<1>6. CollectedOnce'
  <2>1. \A n \in DOMAIN log : \A f \in Collected(n) : Numbered(e) => f # e
    BY <1>1 DEF OnceInv
  <2>2. ASSUME NEW k \in DOMAIN log', NEW n \in DOMAIN log', k # n PROVE Collected(k)' \cap Collected(n)' = {}
    <3> SUFFICES ASSUME NEW f \in Collected(k)', f \in Collected(n)' PROVE FALSE
      OBVIOUS
    <3>1. CASE f \in Collected(k) /\ f \in Collected(n)
      BY <2>2, <3>1 DEF OnceInv, CollectedOnce
    <3>2. CASE f = e /\ Numbered(e)
      <4>1. f \notin Collected(k) /\ f \notin Collected(n)
        BY <2>1, <3>2
      <4> QED BY <1>4, <2>2, <4>1
    <3> QED BY <1>4, <3>1, <3>2
  <2> QED BY <2>2 DEF CollectedOnce
<1>7. \A n \in DOMAIN log' : \A f \in Collected(n)' :
        f.id <= sent' /\ \A i \in DOMAIN queue' : Numbered(queue'[i]) => queue'[i].id # f.id
  BY <1>5
<1> QED BY <1>2, <1>3, <1>6, <1>7 DEF OnceInv, Numbered

\* Every step preserves the invariant: an event that is read goes to one batch and
\* one that is published is new.
LEMMA OnceStep == SubInv /\ OnceInv /\ [Next]_vars => OnceInv'
<1> SUFFICES ASSUME SubInv, OnceInv, [Next]_vars PROVE OnceInv'
  OBVIOUS
<1>a. BatchInv /\ DetectorTypeOK /\ queue \in Seq(Published) /\ sent \in Nat
  BY DEF SubInv
<1>0. ASSUME UNCHANGED batcherVars, sent' = sent, queue' \in {queue, <<>>} PROVE OnceInv'
  BY <1>0, CollectedStutter, OnceQuiet
<1>1. CASE Receive
  <2> DEFINE e == Head(queue)
  <2>1. e \in Published /\ queue # <<>> /\ queue' = Tail(queue) /\ sent' = sent
    BY <1>1, <1>a DEF Receive
  <2>2. e.type \notin Immediate => e \in Batchable
    BY <2>1 DEF Published, Batchable
  <2>3. Offer(e)
    BY <1>1 DEF Receive
  <2> HIDE DEF e
  <2>4. ASSUME NEW b \in Batches, e.type \notin Immediate, Buffer(b, e) \/ Complete(b, e) PROVE OnceInv'
    <3>1. \A n \in DOMAIN log' : /\ n \in DOMAIN log
                                 /\ Collected(n)' \subseteq
                                      Collected(n) \cup (IF n = current[b] THEN {e} ELSE {})
      BY <1>a, <2>2, <2>4, BufferCollects, CompleteCollects
    <3>2. \E m : m = current[b]
      OBVIOUS
    <3>3. PICK m : m = current[b]
      BY <3>2
    <3> QED BY <1>a, <2>1, <2>4, <3>1, <3>3, OnceReceive DEF Numbered, e
  <2>5. CASE UNCHANGED batcherVars
    <3>1. PICK new : new = {}
      OBVIOUS
    <3>2. \A n \in DOMAIN log' : /\ n \in DOMAIN log
                                 /\ Collected(n)' \subseteq Collected(n) \cup (IF n = 0 THEN new ELSE {})
      BY <2>5, CollectedStutter
    <3>3. new \subseteq {Head(queue)}
      BY <3>1
    <3> QED BY <1>a, <2>1, <3>1, <3>2, <3>3, OnceReceive
  <2> QED BY <2>3, <2>4, <2>5 DEF Offer
<1>2. CASE Handled \/ ListenerDies \/ Start \/ BeginStop \/ FinishStop
  BY <1>0, <1>2 DEF Handled, ListenerDies, Start, BeginStop, FinishStop
<1>3. CASE Tick
  <2>1. /\ stalledChannels' \ stalledChannels \subseteq Channels
        /\ erroredAgents' \ erroredAgents \subseteq Agents
    BY <1>3, <1>a, TickTyped DEF Tick
  <2>2. \A c \in Channels : LET e == Event(0, "channel:stalled", "pa", c) IN e \in Published /\ ~Numbered(e)
    BY DEF Event, Published, Types, Immediate, Numbered
  <2>3. \A a \in Agents : LET e == Event(0, "agent:error", a, NoChannel) IN e \in Published /\ ~Numbered(e)
    BY DEF Event, Published, Types, Immediate, Numbered
  <2>4. UNCHANGED batcherVars /\ sent' = sent
    BY <1>3 DEF Tick
  <2>5. CASE \E c \in stalledChannels' \ stalledChannels : Publish(Event(0, "channel:stalled", "pa", c))
    BY <1>a, <2>1, <2>2, <2>4, <2>5, OncePublish
  <2>6. CASE \E a \in erroredAgents' \ erroredAgents : Publish(Event(0, "agent:error", a, NoChannel))
    BY <1>a, <2>1, <2>3, <2>4, <2>6, OncePublish
  <2>7. CASE UNCHANGED queue
    BY <1>0, <2>4, <2>7
  <2> QED BY <1>3, <2>5, <2>6, <2>7 DEF Tick
<1>4. ASSUME NEW a \in Publishers, AgentEvent(a) PROVE OnceInv'
  <2>1. sent' = sent + 1 /\ sent' \in Nat /\ UNCHANGED batcherVars
    BY <1>4, <1>a DEF AgentEvent
  <2>2. PICK c \in Channels \cup {NoChannel}, type \in Types : Publish(Event(sent', type, a, c))
    BY <1>4 DEF AgentEvent, Types
  <2>3. Event(sent', type, a, c) \in Published /\ Event(sent', type, a, c).id = sent + 1
    BY <2>1 DEF Event, Published
  <2>4. \E e \in Published : e = Event(sent', type, a, c)
    BY <2>3
  <2>5. PICK e \in Published : e = Event(sent', type, a, c)
    BY <2>4
  <2> QED BY <1>a, <2>1, <2>2, <2>3, <2>5, OncePublish
<1>5. ASSUME NEW b \in Batches, NEW S \in Expectable, ExpectBatch(b, S) PROVE OnceInv'
  <2>1. \A n \in DOMAIN log' :
          (n \in DOMAIN log /\ Collected(n)' \subseteq Collected(n)) \/ Collected(n)' = {}
    BY <1>5, <1>a, ExpectCollects DEF ExpectBatch
  <2> QED BY <1>5, <2>1, OnceQuiet DEF ExpectBatch, subscriberVars
<1>6. ASSUME NEW b \in Batches, BatchTimer(b) \/ CancelBatch(b) PROVE OnceInv'
  <2>1. /\ current[b] # 0 /\ Forget(b) /\ queue' = queue /\ sent' = sent
        /\ \E fate \in {"timeout", "cancelled"} : log' = Ended(b, fate)
    BY <1>6, <1>a DEF BatchTimer, TimedOut, CancelBatch, Cancel, Active, BatchInv, BatchMaps, subscriberVars
  <2>2. \A n \in DOMAIN log' : n \in DOMAIN log /\ Collected(n)' \subseteq Collected(n)
    BY <1>a, <2>1, EndedCollects
  <2> QED BY <2>1, <2>2, OnceQuiet
<1>7. CASE (\E c \in Channels : ChannelCall(c)) \/ (\E a \in Agents : AgentCall(a)) \/ Overdue
  <2>1. UNCHANGED <<batcherVars, queue, sent>>
    BY <1>7 DEF ChannelCall, AgentCall, Overdue, subscriberVars
  <2> QED BY <1>0, <2>1
<1>8. CASE UNCHANGED vars
  BY <1>0, <1>8 DEF vars, subscriberVars
<1> QED BY <1>1, <1>2, <1>3, <1>4, <1>5, <1>6, <1>7, <1>8 DEF Next

\* No event is collected for two calls of expect, and nothing collected for a batch
\* that was started over counts for the new one.
THEOREM EventsAreCollectedOnce == Spec => []CollectedOnce
<1>1. OnceInv => CollectedOnce
  BY DEF OnceInv
<1> QED BY <1>1, SubInit, SubStep, OnceInit, OnceStep, PTL DEF Spec
=============================================================================
