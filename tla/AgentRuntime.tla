----------------------------- MODULE AgentRuntime -----------------------------
(***************************************************************************)
(* A specialist agent, src/faith_pa/agent: the loop that hears a channel   *)
(* and asks the model (base.py), the retries and the fallback of a call    *)
(* (llm_client.py), the window of recent messages and the summary they are *)
(* compacted into (summariser.py).  A compaction awaits the model while    *)
(* the loop goes on hearing, and while changes of reference documents are  *)
(* noted in the window.                                                    *)
(***************************************************************************)
EXTENDS Naturals, Sequences, FiniteSets, SequencesExt, SequenceParts

CONSTANTS Primary, Fallback,\* the models; Fallback is NoModel when none is configured
          NoModel,
          Attempts,         \* one more than the RETRY_DELAYS
          Window,           \* context.max_messages
          Retained,         \* retain_recent_messages
          MaxHeard,         \* bound on the messages of the channel
          MaxMade,          \* bound on the messages made in all
          MaxRuns           \* bound on the starts of the agent

ASSUME AgentConstants ==
  Attempts \in Nat \ {0} /\ Window \in Nat \ {0} /\ Retained \in Nat \ {0}

VARIABLES agentLoop,   \* new, waiting, asking or ended
          runs,        \* the starts so far
          inbox,       \* what the subscription holds for get_message
          heard, made, \* messages of the channel, and of the agent's window, so far
          recentMessages, \* recent_messages
          summary,     \* context_summary: the messages it tells of
          savedSummary,\* agents/<id>/context.md
          modelCall,   \* the model that is asked and the attempt
          compaction   \* the messages compact_context took along

agentVars == <<agentLoop, runs, inbox, heard, made, recentMessages, summary, savedSummary,
               modelCall, compaction>>

NoCall == [model |-> NoModel, attempt |-> 0]
NothingTaken == <<>>
Listening == agentLoop \in {"waiting", "asking"}
Ids(messages) == {m.id : m \in ToSet(messages)}
Lasting(messages) == At(messages, {i \in DOMAIN messages : ~messages[i].disposable})

AgentInit ==
  /\ agentLoop = "new" /\ runs = 0
  /\ inbox = <<>> /\ heard = 0 /\ made = 0
  /\ recentMessages = <<>> /\ summary = {} /\ savedSummary = {}
  /\ modelCall = NoCall /\ compaction = NothingTaken

\* add_message: the window keeps the newest.
Added(disposable) == Newest(Append(recentMessages, [id |-> made + 1, disposable |-> disposable]), Window)
AddMessage(disposable) == made' = made + 1 /\ recentMessages' = Added(disposable)

\* run, of a new object: the summary is read back and its channel subscribed.
RunAgent ==
  /\ agentLoop \in {"new", "ended"} /\ runs < MaxRuns
  /\ agentLoop' = "waiting" /\ runs' = runs + 1
  /\ recentMessages' = <<>> /\ summary' = savedSummary
  /\ inbox' = <<>> /\ modelCall' = NoCall /\ compaction' = NothingTaken
  /\ UNCHANGED <<heard, made, savedSummary>>

\* A publication reaches the subscription, of a message or of what is none.
Publish(kind) ==
  /\ Listening /\ heard < MaxHeard
  /\ heard' = heard + 1 /\ inbox' = Append(inbox, kind)
  /\ UNCHANGED <<agentLoop, runs, made, recentMessages, summary, savedSummary,
                 modelCall, compaction>>

\* _listen_loop and _handle_message, up to the call of the model.
HandleMessage ==
  /\ agentLoop = "waiting" /\ inbox # <<>>
  /\ inbox' = Tail(inbox)
  /\ IF Head(inbox) = "garbled"
     THEN UNCHANGED <<agentLoop, made, recentMessages, modelCall>>
     ELSE /\ made < MaxMade /\ AddMessage(Head(inbox) = "disposable")
          /\ agentLoop' = "asking" /\ modelCall' = [model |-> Primary, attempt |-> 1]
  /\ UNCHANGED <<runs, heard, summary, savedSummary, compaction>>

\* A bug the runs must notice: the fallback falls back on itself.
AfterFailureAgain(call) ==
  CASE call.attempt < Attempts -> [call EXCEPT !.attempt = call.attempt + 1]
    [] call.attempt >= Attempts /\ Fallback # NoModel -> [model |-> Fallback, attempt |-> 1]
    [] OTHER -> NoCall

\* chat and _chat_with_retry: after the last attempt the fallback has its own.
AfterFailure(call) ==
  CASE call.attempt < Attempts -> [call EXCEPT !.attempt = call.attempt + 1]
    [] call.attempt >= Attempts /\ call.model = Primary /\ Fallback # NoModel ->
         [model |-> Fallback, attempt |-> 1]
    [] OTHER -> NoCall

\* The loop logs what the handler raises and goes on.
CallEnds(next) ==
  /\ modelCall' = next
  /\ agentLoop' = IF next = NoCall THEN "waiting" ELSE agentLoop

\* An attempt times out or is refused for the time being, ...
AttemptFails ==
  /\ agentLoop = "asking" /\ CallEnds(AfterFailure(modelCall))
  /\ UNCHANGED <<runs, inbox, heard, made, recentMessages, summary, savedSummary, compaction>>

\* ... is refused for good, which no fallback follows, ...
AttemptRefused ==
  /\ agentLoop = "asking" /\ CallEnds(NoCall)
  /\ UNCHANGED <<runs, inbox, heard, made, recentMessages, summary, savedSummary, compaction>>

\* ... or is answered: _handle_llm_response, whose publication may raise.
Answer ==
  /\ agentLoop = "asking" /\ made < MaxMade
  /\ AddMessage(FALSE) /\ CallEnds(NoCall)
  /\ UNCHANGED <<runs, inbox, heard, summary, savedSummary, compaction>>

AttemptEnds == AttemptFails \/ AttemptRefused \/ Answer

\* compact_context, up to the call of the model.
BeginCompaction ==
  /\ Listening /\ compaction = NothingTaken /\ recentMessages # <<>>
  /\ compaction' = recentMessages
  /\ UNCHANGED <<agentLoop, runs, inbox, heard, made, recentMessages, summary, savedSummary,
                 modelCall>>

\* What is left of the messages: the newest that last, under a note.
Remaining(messages) ==
  LET kept == Newest(Lasting(messages), Retained)
  IN IF Len(messages) > Len(kept)
     THEN <<[id |-> made + 1, disposable |-> TRUE]>> \o kept
     ELSE kept

\* A bug the runs must notice: the summary is written but not taken over.
CompactOnDiskOnly(answer) ==
  /\ compaction # NothingTaken /\ made < MaxMade /\ made' = made + 1
  /\ savedSummary' = answer
  /\ recentMessages' = Remaining(compaction) /\ compaction' = NothingTaken
  /\ UNCHANGED <<agentLoop, runs, inbox, heard, summary, modelCall>>

\* The model has answered: the file is written, and the window replaced by what
\* was left of it when the compaction began.
FinishCompaction(answer) ==
  /\ compaction # NothingTaken /\ made < MaxMade /\ made' = made + 1
  /\ savedSummary' = answer /\ summary' = answer
  /\ recentMessages' = Remaining(compaction) /\ compaction' = NothingTaken
  /\ UNCHANGED <<agentLoop, runs, inbox, heard, modelCall>>

\* The model may answer with nothing.
Summaries == {{}, summary \cup {m.id : m \in {n \in ToSet(compaction) : ~n.disposable}}}

FailCompaction ==
  /\ compaction # NothingTaken /\ compaction' = NothingTaken
  /\ UNCHANGED <<agentLoop, runs, inbox, heard, made, recentMessages, summary, savedSummary,
                 modelCall>>

\* handle_cag_file_changed, of a document that was loaded and can be read again.
ReloadDocument ==
  /\ Listening /\ made < MaxMade
  /\ AddMessage(TRUE)
  /\ UNCHANGED <<agentLoop, runs, inbox, heard, summary, savedSummary, modelCall, compaction>>

\* _signal_shutdown cancels the loop, wherever it is; _shutdown unsubscribes.
ShutdownAgent ==
  /\ Listening
  /\ agentLoop' = "ended" /\ modelCall' = NoCall /\ inbox' = <<>> /\ compaction' = NothingTaken
  /\ UNCHANGED <<runs, heard, made, recentMessages, summary, savedSummary>>

AgentNext ==
  \/ RunAgent \/ HandleMessage \/ AttemptEnds \/ ShutdownAgent
  \/ \E kind \in {"lasting", "disposable", "garbled"} : Publish(kind)
  \/ BeginCompaction \/ FailCompaction \/ ReloadDocument
  \/ \E answer \in Summaries : FinishCompaction(answer)

Remembered == Ids(Lasting(recentMessages)) \cup summary

(***************************************************************************)
(* What lasts leaves the memory of a running agent only when the window    *)
(* pushes its oldest message out, when a compaction ends that had not      *)
(* taken it along, or when the model summarises to nothing.                *)
(***************************************************************************)
MemoryIsKept ==
  [][Listening /\ agentLoop' # "ended" =>
       \A i \in Remembered \ (Ids(Lasting(recentMessages')) \cup summary') :
          \/ Len(recentMessages) = Window /\ i = Head(recentMessages).id
          \/ compaction # NothingTaken /\ compaction' = NothingTaken
               /\ (i \notin Ids(compaction) \/ savedSummary' = {})]_agentVars

(***************************************************************************)
(* An agent that asks its model hears its channel again: attempts end, and *)
(* are counted.                                                            *)
(***************************************************************************)
AgentHearsAgain == agentLoop = "asking" ~> agentLoop # "asking"
=============================================================================
