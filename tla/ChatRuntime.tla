------------------------------ MODULE ChatRuntime ------------------------------
(***************************************************************************)
(* The ProjectAgentChatRuntime of src/faith_pa/pa/app.py over its          *)
(* SessionManager: one loop that handles the user's messages one at a      *)
(* time, and the session endpoints, which run between any two of its       *)
(* awaits.  pc names the await at which the loop stands:                   *)
(*                                                                         *)
(*   waiting      the next message                                         *)
(*   active       the frame that says the agent is at work                 *)
(*   resumed      the frame of the resume marker                           *)
(*   echoed       the echo of the question                                 *)
(*   summarising  the model that summarises the history to compact         *)
(*   compacted    the warning about the compaction                         *)
(*   lifted       the frame that lifts the pause of a hard compaction      *)
(*   asking       the chat model                                           *)
(*   warning      the frame of the cost warning                            *)
(*   calling      the tool the model asked for                             *)
(*   streaming    the frames of the reply                                  *)
(*   failing      the frame of an error                                    *)
(*   dead         nothing: an exception has ended the loop                 *)
(*                                                                         *)
(* A message is [turn, role, keep]; keep: its text has one of the words    *)
(* that compaction must retain.  The usage of the context window and the   *)
(* models' answers are arbitrary.                                          *)
(***************************************************************************)
EXTENDS SessionManager, SequenceParts

CONSTANTS Kinds,           \* the kinds each of the user's messages may have: a sequence of sets
          MaxRequests,     \* bound on the requests about sessions that succeed
          MaxBoots,        \* bound on the restarts of the process
          MaxHistory,      \* MAX_PROJECT_AGENT_HISTORY
          RetainRecent,    \* retain_recent_messages
          MaxIterations,   \* MAX_PROJECT_AGENT_TOOL_ITERATIONS
          CostThreshold    \* cost_threshold_usd, in calls of the model

ASSUME ChatConstants ==
  /\ Kinds \in Seq(SUBSET {"plain", "urgent", "inventory", "rule", "once", "family",
                         "upload", "unfit"})
  /\ MaxHistory \in Nat /\ RetainRecent \in Nat \ {0}
  /\ MaxIterations \in Nat \ {0} /\ CostThreshold \in Nat \ {0}

VARIABLES pc,
          turn,        \* the turn under way: its number, kind, task and progress
          turns,       \* the number of turns begun
          transcript,  \* transcript_messages
          history,     \* the messages the next prompt is built from
          summarised,  \* the messages compacted_history_summary stands for
          records,     \* the messages of the compaction records on disk
          resume,      \* _pending_resume_session_id; 0: None
          rules,       \* the durable rules in AGENTS.md
          spent,       \* the token logger's session total
          warned,      \* _warning_emitted
          shown,       \* the last status frame the browser got
          paused,      \* the last compaction_state frame
          boots,       \* the restarts so far
          requests,    \* the requests about sessions so far
          \* what the properties need to know
          carried,     \* the transcript a process found in a session it did not resume
          crossed,     \* the turns during which the session was changed
          mixed,       \* such a turn has written to the history
          answered     \* the last turn answered since the history was loaded

chatVars == <<sessionVars, pc, turn, turns, transcript, history, summarised, records, resume,
              rules, spent, warned, shown, paused, boots, requests, carried, crossed, mixed,
              answered>>

runtimeVars == <<turns, summarised, records, resume, rules, spent, warned, paused, boots,
                 requests>>

NoTurn == [n |-> 0, kind |-> "plain", task |-> 0, round |-> 0, hard |-> FALSE,
           kept |-> <<>>, dropped |-> {}, reply |-> "none"]

Message(role) == [turn |-> turn.n, role |-> role, keep |-> role = "user" /\ turn.kind = "urgent"]
Marker == [turn |-> 0, role |-> "marker", keep |-> FALSE]
Note == [turn |-> 0, role |-> "note", keep |-> TRUE]

Busy == pc \notin {"waiting", "dead"}

\* What a turn that has lost its session does to the history.
Mixes == mixed \/ turn.n \in crossed

-----------------------------------------------------------------------------
(* The process *)

ChatInit ==
  /\ disk = <<NewDirectory>>
  /\ current = 1
  /\ tasks = NoTasks
  /\ active = 0
  /\ made = 0
  /\ idle = "none"
  /\ closing = 0
  /\ pc = "waiting"
  /\ turn = NoTurn
  /\ turns = 0
  /\ transcript = <<>>
  /\ history = <<>>
  /\ summarised = {}
  /\ records = {}
  /\ resume = 0
  /\ rules = <<>>
  /\ spent = 0
  /\ warned = FALSE
  /\ shown = "idle"
  /\ paused = FALSE
  /\ boots = 0
  /\ requests = 0
  /\ carried = <<>>
  /\ crossed = {}
  /\ mixed = FALSE
  /\ answered = 0

\* __init__ and start of a new process after a stop or a crash at any point:
\* the transcript of the latest session is loaded even when that session has
\* ended and _ensure_active_session starts another one.
Boot ==
  /\ boots < MaxBoots
  /\ boots' = boots + 1
  /\ \E latest \in Latest(disk) :
       LET resumed == latest \in Resumed(disk)
       IN /\ transcript' = disk[latest].log
          /\ history' = Newest(disk[latest].log, MaxHistory)
          /\ carried' = IF resumed THEN <<>> ELSE disk[latest].log
          /\ IF resumed
             THEN current' = latest /\ UNCHANGED disk
             ELSE Len(disk) < MaxSessions /\ current' = Len(disk) + 1 /\ disk' = Append(disk, NewDirectory)
  /\ tasks' = NoTasks
  /\ active' = 0
  /\ pc' = "waiting"
  /\ turn' = NoTurn
  /\ summarised' = {}
  /\ resume' = 0
  /\ spent' = 0
  /\ warned' = FALSE
  /\ crossed' = IF Busy THEN crossed \cup {turn.n} ELSE crossed
  /\ mixed' = FALSE
  /\ answered' = 0
  /\ UNCHANGED <<made, idle, closing, turns, records, rules, shown, paused, requests>>

-----------------------------------------------------------------------------
(* The user's requests, between any two awaits of the loop *)

Unmixed ==
  /\ requests < MaxRequests
  /\ requests' = requests + 1
  /\ crossed' = IF Busy THEN crossed \cup {turn.n} ELSE crossed
  /\ mixed' = FALSE
  /\ answered' = 0
  /\ carried' = <<>>

\* A bug the runs must notice: the transcript of the session before is kept.
NewSessionKeepsTranscript ==
  /\ Full(disk, current)
  /\ Len(disk) < MaxSessions
  /\ disk' = Append([disk EXCEPT ![current] = Ended(@, tasks)], NewDirectory)
  /\ current' = Len(disk) + 1
  /\ tasks' = NoTasks
  /\ active' = 0
  /\ UNCHANGED transcript
  /\ history' = <<>>
  /\ summarised' = {}
  /\ resume' = 0
  /\ spent' = 0
  /\ warned' = FALSE
  /\ Unmixed
  /\ UNCHANGED <<made, idle, closing, pc, turn, turns, records, rules, shown, paused, boots>>

\* start_new_session
NewSession ==
  /\ Full(disk, current)
  /\ Len(disk) < MaxSessions
  /\ disk' = Append([disk EXCEPT ![current] = Ended(@, tasks)], NewDirectory)
  /\ current' = Len(disk) + 1
  /\ tasks' = NoTasks
  /\ active' = 0
  /\ transcript' = <<>>
  /\ history' = <<>>
  /\ summarised' = {}
  /\ resume' = 0
  /\ spent' = 0
  /\ warned' = FALSE
  /\ Unmixed
  /\ UNCHANGED <<made, idle, closing, pc, turn, turns, records, rules, shown, paused, boots>>

\* start_new_session when the current session was deleted: end_session raises.
NewSessionFails ==
  /\ EndSessionFails(FALSE)
  /\ UNCHANGED <<turns, summarised, records, resume, rules, spent, warned, paused, boots, requests, pc,
                 turn, transcript, history, shown, carried, crossed, mixed, answered>>

\* A bug the runs must notice: the history of the session before is kept.
ActivateKeepsHistory(s) ==
  /\ ActivateSession(s)
  /\ transcript' = disk[s].log
  /\ UNCHANGED history
  /\ summarised' = {}
  /\ resume' = s
  /\ Unmixed
  /\ UNCHANGED <<pc, turn, turns, records, rules, spent, warned, shown, paused, boots>>

\* activate_session: the total of the token logger goes on.
Activate(s) ==
  /\ ActivateSession(s)
  /\ transcript' = disk[s].log
  /\ history' = Newest(disk[s].log, MaxHistory)
  /\ summarised' = {}
  /\ resume' = s
  /\ Unmixed
  /\ UNCHANGED <<pc, turn, turns, records, rules, spent, warned, shown, paused, boots>>

ManageSession(s) ==
  /\ \/ ArchiveSession(s)
     \/ RestoreSession(s)
     \/ DeleteSession(s)
  /\ requests < MaxRequests
  /\ requests' = requests + 1
  /\ UNCHANGED <<turns, summarised, records, resume, rules, spent, warned, paused, boots, pc, turn,
                 transcript, history, shown, carried, crossed, mixed, answered>>

-----------------------------------------------------------------------------
(* The loop *)

\* The exception leaves _handle_payload: error and idle are published, the loop ends.
Die == pc' = "dead" /\ shown' = "idle"

\* _handle_payload up to its first frame.  Nothing catches what an unfit message
\* raises: bytes that are no UTF-8, a JSON value that is no object, an upload whose
\* scope or size is none.  The first text names the session, which reads its
\* metadata; an upload does not.  Both need a task.
Begin(kind) ==
  /\ pc = "waiting"
  /\ turns < Len(Kinds)
  /\ kind \in Kinds[turns + 1]
  /\ turns' = turns + 1
  /\ LET task == IF ActiveTask(tasks, active) # 0 THEN ActiveTask(tasks, active) ELSE made + 1
         named == kind = "upload" \/ Full(disk, current)
     IN /\ turn' = [NoTurn EXCEPT !.n = turns', !.kind = kind, !.task = task]
        /\ IF kind = "unfit" \/ ~named
           THEN Die /\ UNCHANGED <<disk, tasks, active, made>>
           ELSE IF task <= made
           THEN /\ pc' = "active" /\ shown' = "active"
                /\ UNCHANGED <<disk, tasks, active, made>>
           ELSE /\ made' = task
                /\ active' = task
                /\ tasks' = WithTask(tasks, task)
                /\ disk' = Rewritten(Touch(disk, current), current,
                                     disk[current].open \cup {task}, TotalOf(tasks))
                /\ IF Full(disk, current) THEN pc' = "active" /\ shown' = "active" ELSE Die
  /\ UNCHANGED <<current, idle, closing, transcript, history, summarised, records, resume, rules,
                 spent, warned, paused, boots, requests, carried, crossed, mixed, answered>>

\* _record_transcript_message: memory first, then the log of the current session.
Recorded(d, m) == [d EXCEPT ![current].log = Append(@, m)]
Writable(d) == d[current].dir # "none"

\* _maybe_record_resume_marker
MarkResumed ==
  /\ pc = "active"
  /\ resume = current
  /\ resume' = 0
  /\ transcript' = Append(transcript, Marker)
  /\ IF Writable(disk) THEN pc' = "resumed" /\ disk' = Recorded(disk, Marker) /\ UNCHANGED shown
     ELSE Die /\ UNCHANGED disk
  /\ UNCHANGED <<current, tasks, active, made, idle, closing, turn, turns, history, summarised,
                 records, rules, spent, warned, paused, boots, requests, carried, crossed, mixed, answered>>

\* A bug the runs must notice: the question is recorded in memory only.
RecordQuestionInMemory ==
  /\ pc = "resumed" \/ (pc = "active" /\ resume # current)
  /\ transcript' = Append(transcript, Message("user"))
  /\ IF Writable(disk)
     THEN pc' = "echoed" /\ UNCHANGED <<disk, shown>>
     ELSE Die /\ UNCHANGED disk
  /\ UNCHANGED <<current, tasks, active, made, idle, closing, turn, history, runtimeVars,
                 carried, crossed, mixed, answered>>

\* The question goes to the session that is current now.
RecordQuestion ==
  /\ pc = "resumed" \/ (pc = "active" /\ resume # current)
  /\ transcript' = Append(transcript, Message("user"))
  /\ IF Writable(disk)
     THEN pc' = "echoed" /\ disk' = Recorded(disk, Message("user")) /\ UNCHANGED shown
     ELSE Die /\ UNCHANGED disk
  /\ UNCHANGED <<current, tasks, active, made, idle, closing, turn, history, runtimeVars,
                 carried, crossed, mixed, answered>>

\* The reply becomes part of the history, the transcript and the log.
Finish(d) ==
  /\ history' = Newest(history \o <<Message("user"), Message("reply")>>, MaxHistory)
  /\ transcript' = Append(transcript, Message("reply"))
  /\ mixed' = Mixes
  /\ answered' = IF turn.n \in crossed THEN answered ELSE turn.n
  /\ IF Writable(d) THEN pc' = "streaming" /\ disk' = Recorded(d, Message("reply"))
     ELSE pc' = "failing" /\ disk' = d

\* is_mcp_inventory_question: answered without a model.
AnswerInventory ==
  /\ pc = "echoed"
  /\ turn.kind = "inventory"
  /\ Finish(disk)
  /\ UNCHANGED <<current, tasks, active, made, idle, closing, turn, runtimeVars, shown, carried, crossed>>

\* append_channel_message: KeyError when the task is not in memory.  A writer
\* makes the directories above its log.
HasTask == turn.task \in DOMAIN tasks

\* _build_chat_messages: the snapshot of the context recreates the directory.
Ask(d) == pc' = "asking" /\ disk' = Touch(d, current)

\* select_history_for_compaction
Old == SubSeq(history, 1, Len(history) - Min({Len(history), RetainRecent}))

\* A bug the runs must notice: the newest messages are the ones given up.
KeptHistoryWrongEnd ==
  SubSeq(history, 1, Min({Len(history), RetainRecent}))
    \o SelectSeq(SubSeq(history, RetainRecent + 1, Len(history)), LAMBDA m : m.keep)

KeptHistory == At(Old, {i \in DOMAIN Old : Old[i].keep}) \o Newest(history, RetainRecent)
DroppedHistory == {Old[i] : i \in {j \in DOMAIN Old : ~Old[j].keep}}

\* assess_rule_promotion on the cues of the text: a word that limits the rule to
\* this once beats every other; what follows the cue must not be empty.
CuesOf(kind) == CASE kind = "rule" -> {"explicit", "text"}
                  [] kind = "once" -> {"explicit", "blocking", "text"}
                  [] OTHER -> {"text"}
ShouldPromote(cues) ==
  /\ "blocking" \notin cues
  /\ cues \cap {"explicit", "imperative"} # {}
  /\ "text" \in cues

\* _maybe_promote_durable_rule, then _maybe_compact_before_turn up to its call of
\* the model: the split of the history is made before that call.
Consider(mode) ==
  /\ pc = "echoed"
  /\ turn.kind # "inventory"
  /\ LET promotes == ShouldPromote(CuesOf(turn.kind)) /\ rules = <<>>
         promoted == IF promotes THEN Touch(disk, current) ELSE disk
     IN /\ rules' = IF promotes THEN <<turn.n>> ELSE rules
        /\ IF promotes /\ ~HasTask
           THEN pc' = "failing" /\ UNCHANGED <<disk, turn, paused>>
           ELSE IF mode = "none" \/ DroppedHistory = {}
           THEN Ask(promoted) /\ turn' = [turn EXCEPT !.round = 1] /\ UNCHANGED paused
           ELSE /\ pc' = "summarising"
                /\ turn' = [turn EXCEPT !.hard = mode = "hard", !.kept = KeptHistory,
                                        !.dropped = DroppedHistory]
                /\ paused' = IF mode = "hard" THEN TRUE ELSE paused
                /\ disk' = promoted
  /\ UNCHANGED <<current, tasks, active, made, idle, closing, turns, transcript, history, summarised,
                 records, resume, spent, warned, shown, boots, requests, carried, crossed, mixed, answered>>

\* _run_history_compaction after the model's answer.  An empty summary leaves the
\* old one; the record of what was dropped goes to the session that is current.
Compact(empty) ==
  /\ pc = "summarising"
  /\ history' = Newest(<<Note>> \o turn.kept, MaxHistory)
  /\ summarised' = IF empty THEN summarised ELSE summarised \cup turn.dropped
  /\ records' = records \cup turn.dropped
  /\ disk' = Touch(disk, current)
  /\ mixed' = Mixes
  /\ pc' = IF HasTask THEN "compacted" ELSE "failing"
  /\ UNCHANGED <<current, tasks, active, made, idle, closing, turn, turns, transcript, resume, rules,
                 spent, warned, shown, paused, boots, requests, carried, crossed, answered>>

LiftPause ==
  /\ pc = "compacted"
  /\ turn.hard
  /\ pc' = "lifted"
  /\ paused' = FALSE
  /\ UNCHANGED <<sessionVars, turn, turns, transcript, history, summarised, records, resume, rules,
                 spent, warned, shown, boots, requests, carried, crossed, mixed, answered>>

AskAfterCompaction ==
  /\ pc = "lifted" \/ (pc = "compacted" /\ ~turn.hard)
  /\ Ask(disk)
  /\ turn' = [turn EXCEPT !.round = 1]
  /\ UNCHANGED <<current, tasks, active, made, idle, closing, runtimeVars, transcript, history, shown,
                 carried, crossed, mixed, answered>>

\* A bug the runs must notice: the rounds are not counted.
NextRoundUncounted(d) ==
  /\ pc' = "asking"
  /\ disk' = d
  /\ UNCHANGED <<turn, transcript, history, mixed, answered>>

\* The next round of the tool loop, or its safety limit.
NextRound(d) ==
  IF turn.round < MaxIterations
  THEN /\ pc' = "asking"
       /\ turn' = [turn EXCEPT !.round = @ + 1]
       /\ disk' = d
       /\ UNCHANGED <<transcript, history, mixed, answered>>
  ELSE Finish(d) /\ UNCHANGED turn

\* The answer of the model: a text, a tool call, or a call of a tool the user
\* has not asked for, which is corrected without running anything.
Proceed(reply, d) ==
  CASE reply = "text" -> Finish(d) /\ UNCHANGED turn
    [] reply = "wrong" -> NextRound(d)
    [] reply = "tool" -> /\ pc' = "calling" /\ disk' = d
                         /\ UNCHANGED <<turn, transcript, history, mixed, answered>>

Replies == {"text", "tool"} \cup (IF turn.kind = "family" THEN {"wrong"} ELSE {})

\* An answer that used no tokens is not accounted for.
AnswerFree(reply) ==
  /\ pc = "asking"
  /\ reply \in Replies
  /\ Proceed(reply, disk)
  /\ UNCHANGED <<current, tasks, active, made, idle, closing, runtimeVars, shown, carried, crossed>>

\* _record_token_usage: the token log first, then the task and the session.
Answer(reply) ==
  /\ pc = "asking"
  /\ reply \in Replies
  /\ spent' = spent + 1
  /\ IF HasTask
     THEN /\ tasks' = Charged(tasks, turn.task)
          /\ \E d \in {disk, Touch(disk, current)} :
               LET charged == Rewritten(d, current, d[current].open, TotalOf(tasks'))
               IN IF ~Full(d, current)
                  THEN /\ pc' = "failing" /\ disk' = charged
                       /\ UNCHANGED <<warned, turn, transcript, history, mixed, answered>>
                  ELSE IF spent' >= CostThreshold /\ ~warned
                  THEN /\ pc' = "warning" /\ disk' = charged /\ warned' = TRUE
                       /\ turn' = [turn EXCEPT !.reply = reply]
                       /\ UNCHANGED <<transcript, history, mixed, answered>>
                  ELSE Proceed(reply, charged) /\ UNCHANGED warned
     ELSE /\ pc' = "failing"
          /\ UNCHANGED <<tasks, disk, warned, turn, transcript, history, mixed, answered>>
  /\ UNCHANGED <<current, active, made, idle, closing, turns, summarised, records, resume, rules,
                 shown, paused, boots, requests, carried, crossed>>

AfterWarning ==
  /\ pc = "warning"
  /\ Proceed(turn.reply, disk)
  /\ UNCHANGED <<current, tasks, active, made, idle, closing, runtimeVars, shown, carried, crossed>>

\* The tool has answered: _record_tool_visibility, then the next round.
ToolAnswered ==
  /\ pc = "calling"
  /\ IF HasTask THEN NextRound(Touch(disk, current))
     ELSE pc' = "failing" /\ UNCHANGED <<disk, turn, transcript, history, mixed, answered>>
  /\ UNCHANGED <<current, tasks, active, made, idle, closing, runtimeVars, shown, carried, crossed>>

\* A bug the runs must notice: the exception is not caught inside the turn.
CallKillsLoop ==
  /\ pc \in {"summarising", "asking"}
  /\ Die
  /\ UNCHANGED <<sessionVars, turn, runtimeVars, transcript, history, carried, crossed, mixed, answered>>

\* The chat model or the summarising model raises; the executor of the tools does
\* not, it answers with the error.
CallFails ==
  /\ pc \in {"summarising", "asking"}
  /\ pc' = "failing"
  /\ UNCHANGED <<sessionVars, turn, runtimeVars, transcript, history, shown, carried, crossed, mixed, answered>>

\* The reply, or the error, has been published; so is the idle status.
EndTurn ==
  /\ pc \in {"streaming", "failing"}
  /\ pc' = "waiting"
  /\ shown' = "idle"
  /\ turn' = NoTurn
  /\ UNCHANGED <<sessionVars, runtimeVars, transcript, history, carried, crossed, mixed, answered>>

-----------------------------------------------------------------------------

LoopStep ==
  \/ MarkResumed
  \/ RecordQuestion
  \/ AnswerInventory
  \/ \E mode \in {"none", "soft", "hard"} : Consider(mode)
  \/ \E empty \in BOOLEAN : Compact(empty)
  \/ LiftPause
  \/ AskAfterCompaction
  \/ \E reply \in {"text", "tool", "wrong"} : AnswerFree(reply) \/ Answer(reply)
  \/ AfterWarning
  \/ ToolAnswered
  \/ CallFails
  \/ EndTurn

ChatNext ==
  \/ Boot
  \/ NewSession
  \/ NewSessionFails
  \/ \E s \in DOMAIN disk : Activate(s) \/ ManageSession(s)
  \/ \E kind \in UNION Range(Kinds) : Begin(kind)
  \/ LoopStep

ChatSpec == ChatInit /\ [][ChatNext]_chatVars

\* A step that can run runs: the loop is a task of the event loop, and the
\* clients of the models and the tools answer or raise (they have timeouts).
FairChatSpec == ChatSpec /\ WF_chatVars(LoopStep)

(***************************************************************************)
(* What the browser is shown and what the next prompt is rebuilt from is   *)
(* the log of the current session, after the messages of an ended session  *)
(* that a new process has found and not resumed.  A turn that the session  *)
(* is changed under writes to both; a deleted session has no log.          *)
(***************************************************************************)
TranscriptIsTheLog ==
  Full(disk, current) => transcript = carried \o disk[current].log

(***************************************************************************)
(* The log of a session holds no reply without its question, unless the    *)
(* session was changed, or the process restarted, during the turn.         *)
(***************************************************************************)
ReplyFollowsQuestion ==
  \A s \in {t \in DOMAIN disk : Full(disk, t)} : \A i \in DOMAIN disk[s].log :
    LET m == disk[s].log[i]
    IN m.role = "reply" /\ m.turn \notin crossed =>
         \E j \in 1..(i - 1) : disk[s].log[j].role = "user" /\ disk[s].log[j].turn = m.turn

(***************************************************************************)
(* The prompt of a session is built from its own messages: activate and    *)
(* new reload the history, and only a turn they interrupted can bring back *)
(* the messages of the session before.                                     *)
(***************************************************************************)
HistoryStaysInSession ==
  ~mixed => \A i \in DOMAIN history :
              history[i].role # "note" => \E j \in DOMAIN transcript : transcript[j] = history[i]

(***************************************************************************)
(* The last question that got a reply, and the reply, are in the history:  *)
(* neither compaction nor the bound on the history gives them up.          *)
(***************************************************************************)
AnsweredTurnIsRemembered ==
  answered # 0 /\ ~mixed =>
    \A role \in {"user", "reply"} : \E i \in DOMAIN history :
      history[i].turn = answered /\ history[i].role = role

(***************************************************************************)
(* "Continue after non-fatal processing errors.": whatever the models, the *)
(* tools and the user's requests about sessions do during a turn, the loop *)
(* goes on.  Only a message it cannot take in, or one that finds the       *)
(* session's directory or metadata deleted, ends it.                       *)
(***************************************************************************)
LoopSurvivesItsTurns ==
  [][pc # "dead" /\ pc' = "dead" => ~Full(disk, current) \/ turn'.kind = "unfit"]_chatVars

(***************************************************************************)
(* A turn ends, and the agent is shown idle again, whatever the models,    *)
(* the tools and the user's requests do, unless the process is restarted.  *)
(***************************************************************************)
StatusReturnsToIdle ==
  \A b \in 0..MaxBoots : (Busy /\ boots = b) ~> (shown = "idle" \/ boots > b)

(***************************************************************************)
(* "Compaction is temporarily pausing new sends.": the pause is lifted.    *)
(* It does not hold: nothing lifts it when the summary's call raises.      *)
(***************************************************************************)
PauseIsTemporary == paused ~> ~paused

(***************************************************************************)
(* "archived sessions must be restored before they can be resumed".  It    *)
(* does not hold: a new process resumes the latest session, whatever its   *)
(* status.                                                                 *)
(***************************************************************************)
ArchivedIsNotResumed ==
  [][current' # current \/ boots' # boots => disk'[current'].status # "archived"]_chatVars
=============================================================================
