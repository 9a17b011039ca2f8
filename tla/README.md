# Verification of FAITH

FAITH is a multi-agent AI framework: a Project Agent (PA) runs specialist agents
and tools in containers, routes their events over Redis, and asks the user before
anything risky happens.  This directory holds TLA+ models of its core logic, the
TLC configurations that check them on small instances, and TLAPS proofs of what
matters most for instances of every size.

Run from this directory:

    tlc -workers 2 -config ApprovalFlowInterleaving.cfg MCApprovalFlow.tla
    tlapm ApprovalFlowProofs.tla

`PROJECT.json` ties everything together: the components, the runs, the source
lines every definition stands for, the mutated definitions every property is
tested against, the hazards and the findings.

## 1. The system

All Python code is under `src/`; paths below are relative to it.  The PA is one
process with one asyncio event loop: the code between two awaits is atomic, and
every `await` is a point where every other task may run.  Agents and tools are
other processes; they meet the PA on Redis channels and in the files of the
project directory.

| Component | Keeps | Does | Interacts with |
|---|---|---|---|
| ApprovalEngine (`faith_pa/security/approval_engine.py`) | compiled rules of `.faith/security.yaml`, session memory | evaluate, record_session_approval, clear, reload_rules | reads the file the flow writes |
| ApprovalRequestFlow (`security/approval_flow.py`) | `pending`, `_futures`, `_counter` | request_approval, resolve_request, clear_session | engine, `security.yaml`, publisher, audit log |
| SandboxManager (`faith_pa/pa/sandbox_manager.py`) | records, shared pointer, counter | allocate, reset, release | ContainerManager, events, audit |
| ContainerManager, ProjectSwitcher (`container_manager.py`, `project_switcher.py`) | the containers of Docker, the project, the recent projects | start_all, start, stop_all, restart, switch_project | Docker, events, the browser |
| EventSubscriber, StallDetector, CompletionBatcher (`faith_shared/protocol/subscriber.py`), PAEventDispatcher (`event_dispatcher.py`) | handlers, activity times, flags, batches and their timers | listen, tick, expect/cancel, register/unregister, start/stop | Redis, EventPublisher, handlers |
| LoopDetector (`loop_detector.py`) | a window of snapshots per channel, halted channels | record_and_check, resume, remove, reload | publisher |
| SessionManager (`session.py`) | session, tasks, idle timer, files under `.faith/sessions` | start/end session, tasks, tokens, archive, restore, delete, resume | chat runtime, logs |
| ProjectAgentChatRuntime (`app.py`, `chat_tool_loop.py`, `context_compaction.py`) | queue, chat history, transcript, compaction | the loop of turns, the session endpoints | SessionManager, models, tools, browser |
| Effective context (`effective_context.py`) | cached includes, snapshots | compile the prompt of a turn | files of the workspace |
| Transcript, logs (`session.py`, `faith_pa/logging/`, `faith_web/routes/logs.py`) | files of messages and entries | append, rotate, page, parse | PA, web interface |
| TokenLogger (`logging/token_logger.py`) | prices, calls, session total | cost of a call, threshold warning | chat runtime |
| FileStorageRegistry (`file_storage.py`) | `registry.json` and the stored files | ingest, update, trash, restore, hard_delete, cleanup, export | HTTP endpoints, chat |
| ExternalMCPManager (`external_mcp.py`) | configured servers and their processes | load, reload, start, stop | launcher, secrets |
| ConfigWatcher (`faith_pa/config/hot_reload.py`) | hashes of the configuration files | start, stop, poll | handlers |
| Migrations (`config/migration.py`) | configuration files and their backups | migrate, back up, restore | scripts, the user |
| BaseAgent and its helpers (`faith_pa/agent/`) | recent messages, summary, documents | run loop, model calls, compaction | Redis, models |
| Filesystem tool (`faith_mcp/filesystem/`) | permissions, history, subscriptions | read, write, delete, restore, poll | agents, events |
| KV store (`faith_mcp/kv_store/`) | namespaced keys, index of persistent ones | set, get, delete, cleanup | Redis |
| Code index (`faith_mcp/code_index/`) | documents and symbols | build, load, refresh, watch, search | files |
| Full-text search (`faith_mcp/fulltext_search/`) | - | excerpts, references, `rg` | files, code index |
| Python tool (`faith_mcp/python_exec/`) | the shared sandbox, settings | execute, pip_install, os_package_install | SandboxManager, host worker |
| Interventions, tool router, settings, catalogs, adapters, CLI, web UI | various | section 7 | |

What is hard here, and what correctness means:

* **Approvals.** A caller suspends in the publication of its request, then on a
  future; answers, time-outs, cancellations, session ends and restarts interleave
  with both.  Correct means: what the caller is told is what was recorded first;
  nothing runs silently without a grant; a denial is never outlived by an older
  allowance; nobody who was answered waits forever.
* **Containers and sandboxes.** The record and the container change at different
  times, with awaits between them; Docker calls fail, in part silently.  Correct
  means: the quota, isolation, one shared sandbox, READY records have containers,
  unused sandboxes go away, only the current project's containers run, and code runs
  in the directory it was meant for.
* **Events.** The listener, the tick loop, timers and calls of the PA interleave,
  and what the detector publishes comes back to it.  Correct means: a batch that
  is reported complete is whole, an event counts once, what stays quiet is flagged.
* **Chats and agents.** State is read before a call of a model and written after it,
  while the user changes sessions, messages arrive, and calls fail.  Correct means:
  the browser shows the session's log, no prompt holds another session's messages,
  the answered turn is remembered, loops survive and go on.
* **Files.** Bytes, registries, indices, backups and logs are written one after the
  other, without transactions, and read by others meanwhile.  Correct means: what is
  listed exists, what was kept is still there after a stop, what is read is fresh.
* **Configuration.** Files are edited between the hash and the handler, rewritten in
  place, reloaded while servers start.  Correct means: a change is applied, settings
  survive, every process can be stopped.

## 2. The modules

### Approvals

* `ApprovalEngine` - the rules.  A rule is the set of action keys it matches: all
  the engine ever does with a compiled regular expression is search an action key,
  and one that does not compile is skipped, i.e. the empty set.  `Evaluate` is
  `evaluate` with its order of tiers (ask, deny, allow, session memory, ask first).
  User-authored and learned sections are kept apart in the table because they are
  written by different hands, and looked up together.
* `ApprovalFlow` - the flow, extending the engine.  `request_approval` is
  `Request` (up to the await of the publication), `Published`, then one of `Return`,
  `TimeOut`, `CancelWaiting`; `CancelPublishing` is a cancellation inside the
  publication, which lies before the `try` and so skips the `finally`.
  `resolve_request` is `BeginResolve` (lookup, effect on engine and file, up to the
  await) and `FinishResolve` (audit entry, then the future); `CancelResolve` is what
  is left when the task is cancelled inside the publication, and equally what is
  left when the audit log cannot be written.  Around them: `ClearSession`,
  `ForgetAgent`, an editor deleting a learned rule (`RevokeByHand`), `Reload`,
  `Restart`, and `StopInWrite`, a stop between the truncation of `security.yaml`
  and the flush.  `info[u].id` is the `apr-NNNN` number, which starts again at 1
  after a restart; a call answers a *card*, which is the request the user looked at.
  `era`, `edits`, `revoked` and `torn` record history for the properties.
* `ApprovalGate` - the abstract specification: decisions are recorded, a caller
  gets the first one recorded or an exception.  `ApprovalFlow` implements it with
  `verdict <- outcome` and the same audit log.
* `MCApprovalFlow` - instances.  `ApprovalFlowProofs` - theorems.

A time-out and an answer can become due in the same turn of the event loop.
Which one the caller sees differs between the Python versions the package allows
(`requires-python >= 3.10`), so `TimeOut` does not look at the future.

### Sandboxes

* `SandboxManager` - manager and container runtime.  `ensure_running` and `destroy`
  of the container manager change the container at once and then suspend while they
  publish; the manager's record is changed when they return.  Hence `Allocate` (quota
  check, record, pointer, container; or the exception that leaves the record in
  CREATING), `Started`; `Release`, `Audited` (the decision whether to destroy, and the
  removal), `Destroyed`; `BeginReset`, `Cleared`, `Restarted`.  `Remove` may fail
  silently because the Docker client swallows every exception of a removal.  The
  record's policy, image and labels are left out: nothing depends on them.
* `MCSandboxManager` - instances.  `SandboxManagerProofs` - theorems.

### Events

* `CompletionBatcher` - the batches.  `log` is history: for every call of `expect`,
  its keys, its fate and what was collected for it.
* `StallDetector` - the detector.  Clock readings are reduced to the comparison the
  detector makes: `quiet` and `silent` hold what was last active at least a timeout
  ago.  The loop judges a snapshot (`due`) and suspends in every report.
* `EventSubscriber` - extends both and adds the Redis channel, the listener, the
  agents' events and the PA's calls.  `Publish` may lose the event: Redis delivers to
  whoever is subscribed, and the publisher logs and swallows errors.  `ListenerDies` is
  an exception of `get_message`, after which the task is gone and `start` does nothing.
* `MCEventSubscriber` - instances.  `EventSubscriberProofs` - theorems.

The types modelled are those the properties tell apart: two immediate ones
(`agent:error`, `channel:stalled`), heartbeats, completions and blocked tasks.  The
publisher's helpers put the task under `task`, not `task_id`, so the batcher's key of
an agent's event is the agent.

Not modelled there: a call of `start` that overlaps a call of `stop`, and second
registrations of the dispatcher by a second `start` (both are listed as hazards).

### The chat

* `SessionManager` - the session directories, the session a process writes to and
  its tasks.  Every method is one step, except `end_session`, which awaits the idle
  monitor it cancels before it forgets the session (`closing`).  A directory is
  "bare" when a late write has recreated it after its deletion.
* `ChatRuntime` - extends it with the loop of turns: `pc` names the await at which
  the loop stands, from the frame that says the agent is busy, over the echo, the
  summary of a compaction, the model, the tools and the cost warning, to the frames
  of the reply.  Between any two of them the user ends, resumes, deletes or starts a
  session, or the process restarts.  A message is its turn, its role and whether
  compaction must retain it; `crossed`, `mixed` and `answered` record which turns a
  change of session met, for the properties.
* `MCChatRuntime` - the conversation: three turns, of which the third compacts.

### What is stored

The ten modules of `MCStores` share no state.  To check them together without
multiplying their states, the variable `focus` picks the one a behaviour exercises.

* `ContextIncludes` - the includes of `AGENTS.md`: depth first, with limits, cycles
  and missing files.  The block that is cached holds the texts, and the hash is that of
  the texts joined to one sequence of words, as in the code, so that two sets of texts may
  have the same.  A refresh reads `AGENTS.md` (`Refresh`), resolves the includes for the
  hash (`Look`) and, when that is a new one, again for the block (`Build`); files are edited
  between these steps, though not within one resolution.  `CompileForTurn`, `Compose`,
  `Give` and `Described` are the passes of a turn; each begins with a refresh.
* `TokenLog` - prices from the cache or the default catalog, calls, totals, queries that
  return the newest calls up to a limit, the warning and the agent and model it names.
* `FileStorage` - records live and in the trash, the bytes beside them, exports of
  sessions.  `Save` is the rewriting of the registry, which may be cut short before
  it (`cut`) or within it, after which the registry reads as empty.
* `FilesystemTool` - mounts whose access subfolders and agents narrow; the history
  slots of each file; subscriptions, snapshots and what a poll reports.
* `KVStore` - each Redis command is a step: SET, then SADD or SREM of the index; the
  cleanup reads the index, deletes key by key, then deletes the index.
* `CodeIndex` - files as lists of typed syntax nodes; a scan that visits one file at
  a time while they change, and that a file which goes away, or a link out of the root,
  ends for good (`ScanFails`); symbols of four languages; several indexes, one of them
  the watcher's; a search that scores the files and lists the best up to its limit.
* `TextSearch` - excerpts cut from lines around hits by the rules of the file's
  kind (paragraph, section, code block, brace block), references that are fetched
  later; `rg` as a process that is limited, times out or outlives its request.
* `LogFiles` - writers of three logs, torn lines, rotation by age, the pages a
  reader walks newest first while the files grow.
* `Transcript` - the messages as lines, the writer's trimming, tears within a
  message, and the two readers, which differ in where they see a message end.

### What runs

`MCProject` composes, again by a `focus`, six modules and `PythonExec`:

* `ProjectRuntime` - containers, the project they were made for and their status as
  Docker tells it; the boot, and a switch with its phases (stop the agents, stop all, load
  and start), failures in each; containers that end, that Docker brings up again, and that
  the user stops, removes or restarts by name.  `call` holds what each of the calls under
  way does, for which project, and the containers it has yet to work through: nothing
  keeps a second switch from beginning.  `strays` names the containers of the exceptions
  below, `overlap` is true from the overlap of two calls to a load that finds all down.
* `ExternalMCP` - a server is an object of the table; a start awaits and hangs its
  process on the object it began with (`starting`), a stop awaits the end of the
  process (`stopping`), a reload replaces the objects.  `tangled` records the servers
  for which these overlapped.
* `ConfigReload` - a poll lists the files, then hashes, validates and hands over each
  of them; the user edits between any two reads, with a new text or one the file had
  before.  `applied` is what the handler got, `born` the files that were once missing or
  new, `restored` those that say again what they were hashed with although the handler
  has read another text.
* `ConfigMigration` - backup, rewriting, restoration, and a stop within the rewriting.
  The file `<<n, 0>>` is the file itself, `<<n, k>>` its k-th backup.
* `AgentRuntime` - the loop of an agent over its subscription, attempts and fallback of
  a model call, the window of recent messages and the summary, and the notes about
  changed documents that fill the window too.
* `LoopDetector` - the window of a channel, three checks, halts and what lifts them.
* `PythonExec` - where a call runs (host worker, shared sandbox, subprocess), the mount
  of the sandbox, and what each way a process ends is reported as.  A path is a
  sequence of names; a job says how long its process takes and how it ends.
* `MCPythonExec` - instances of the Python tool alone.

`SequenceParts` holds what the windows of messages and subscriptions are cut with:
`Newest` is Python's `s[-n:]`, `At` the comprehension that keeps some positions in their
order.

The theorems stand in a module for each part of the system: `ApprovalFlowProofs`,
`SandboxManagerProofs`, `EventSubscriberProofs`, `ChatRuntimeProofs` (sessions and chat),
`StoresProofs` (what is stored), `ReadingProofs` (what is computed from files that are
read: includes, transcripts, costs) and `ProjectProofs` (what runs, with the Python tool).
`SequencePartsProofs` has the lemmas on positions, ranks and parts of sequences that the
chat, the agents, the filesystem tool and the logs share, and induction and recursion
over a well-founded order.

## 3. The runs

Every cfg turns deadlock checking off: all bounds are on calls, so a run of the
model ends when the last request is answered or the last event is read, and the
program likewise just waits for the next call.

| Run | Shows | Instance |
|---|---|---|
| approval_interleaving | the caller is told what was audited first; an answer reaches its request; answered and dropped callers return; the flow implements the gate | 2 requests, 2 overlapping answers, four decisions, one session end or restart, fair |
| approval_grants | a silent execution has a grant | 2 agents, 2 files, exact and folder scopes, a hand-written allowance, one session end |
| approval_durable | permanent denials and always-ask hold | learned rules, broken overrides, one edit by hand, one restart |
| sandbox_manager | quota, isolation, one shared sandbox, READY means running | 3 tasks of 2 agents, quota 2, 3 sandboxes ever, one reset |
| sandbox_liveness | an unused sandbox is destroyed | 2 sandboxes, fair |
| event_batches | complete batches are whole, events count once | 2 batch ids, 2 calls of expect, 3 events |
| event_stalls | what stays quiet or silent is flagged | 2 channels, 1 agent, fair |
| chat | the browser shows the log; no reply without its question; no other session's messages in a prompt; the answered turn is remembered; the loop survives; the agent is shown idle again | 3 turns, 3 sessions, 2 requests about sessions, 1 restart, fair |
| stores | sessions agree with their directories; includes are the reachable files and fresh; listed files exist; the sole watcher is told; the history keeps the newest; persistent keys survive; the watcher's index follows the disk; excerpts hold their lines; logs and transcripts read back; the cost warning is right | one store per behaviour, 2 or 3 of each thing (2 subscriptions; 5 source files, one a link out of the root, a search that lists 1), one or two stops, edits or tears |
| project | only the project's containers run; processes can be reached; settings survive; changes are applied; agents remember and hear again; a channel in a loop is halted; code runs where asked | one part per behaviour; 2 projects, the boot and a second call, 1 fault; 3 loads and 2 launches; 3 texts and 3 edits; 4 backups and 2 tears; 2 starts of an agent, 5 messages; 2 calls of Python |
| sandbox_destroyed_empty, python_success | findings, section 5 | |

What the properties of the last three passing runs say, and why a test would hardly reach it:

* `TranscriptIsTheLog`, `ReplyFollowsQuestion`, `HistoryStaysInSession`: every await
  of a turn is one at which the user may have changed the session it belongs to.
  They hold for every turn but those a change of session met, which `crossed` and
  `mixed` name.  `AnsweredTurnIsRemembered` relates the history to a compaction whose
  selection was made before the model was awaited.
* `StoredFilesAreThere`, `SettingsAreKept`, `PersistentSurvivesCleanup`, `LogsAreRead`
  and `TranscriptReadsBack` are about stops and other clients between two writes.
* `IndexFollowsDisk`, `SoleWatcherIsTold`, `ChangeIsApplied` and `PromptIsFresh` relate
  what was cached to the files, after edits in the middle of a scan, a poll or a refresh.
* `RunningIsOfProject`, `RunningIsListed`, `RunsWhereAsked` need several calls with
  failures between them; `MemoryIsKept` says when an agent may forget.

Some properties except what is known to go wrong, and hold beside it; these cases are in
the models, but no property is about them: an old card that answers a new request after
a restart (`AnswerReachesItsRequest`), tasks a dead process left active
(`SessionRecordAgrees`), processes of servers whose starts and stops overlap
(`RunningIsListed`), Python calls below other roots than the mounted one
(`RunsWhereAsked`), what an agent hears during its compaction (`MemoryIsKept`), keys set
during a cleanup (`PersistentSurvivesCleanup`), the containers and switches
`RunningIsOfProject` names, texts that are brought back (`ChangeIsApplied`,
`PromptIsFresh`).  The hazards in `PROJECT.json` say the same at their lines.

Why the bounds suffice: every property relates at most two requests (or answers,
batches, channels, sandboxes, clients, files, calls) of one thing, and the races are
between two actors.  Two calls of `resolve_request` give a double answer, an answer to
each of two requests, and, with `MaxEra = 1`, an answer from before a restart to a
request after it.  Three tasks with a quota of two make the quota bite, share a sandbox
and have one agent attached twice.  Two calls of `expect` on two ids give overlapping
keys, a replaced batch and an id used again.  Three turns fill a history of four and
compact it; two requests about sessions leave a session and come back to it.  Three
loads of the configuration let a reload meet a start begun before another; two
launches an orphan and its successor; three versions overflow a history of two slots.
Each bound is a constant (`MaxEra`, `MaxEdits`, `MaxBoxes`, `MaxEvents`, `MaxQueue`,
`MaxStarts`, `MaxExpects`, `MaxSessions`, `MaxTasks`, `MaxRequests`, `MaxBoots`,
`MaxStops`, `MaxFsChanges`, `MaxSets`, `MaxSaves`, `MaxTorn`, `MaxFaults`,
`MaxReloads`, `MaxLaunches`, `MaxTears`, ...), and the proofs hold for every value of
them.  Symmetry is used only in runs without liveness, over requests, answers, agents,
batch ids or texts that no constant tells apart.

## 4. Fairness

The event loop resumes what is ready.  `FairSpec` of the approvals has weak fairness
of `Published` and `Return` only: nobody has to answer, to time out or to call
anything.  The sandboxes have it for the rest of a call that has begun.  The events
have it for the tick loop, which wakes from its sleep and from its publications; nobody
has to publish anything, the listener may hang in a handler.  The chat has it for
`LoopStep`, the loop's own steps: models and tools are called over clients with a time limit, so
that each await returns or raises; the user owes nothing.  In `MCProject`, `PollStep`
is fair because the watcher sleeps for a fixed time and polls again, and `AttemptStep`
because an attempt of a model call has a time limit; nobody has to edit a file or to
send an agent a message.

## 5. Findings

Two runs check a sentence of the source that the code does not keep, and TLC shows
how:

| Run | Sentence | What happens |
|---|---|---|
| sandbox_destroyed_empty | "Destroy shared sandboxes once no agents remain attached" (`sandbox_manager.py:378`) | an allocation joins during the destruction and holds a DESTROYED sandbox |
| python_success | success "only when the subprocess ... exited with status 0" (`sandbox.py:108`) | code that exits with an error, or is killed, in the container prints nothing, which reads as a success (`managed_sandbox.py:449`) |

The modules also state properties that do not hold, each with the comment "it does
not hold"; they are no runs, and the ones that are run are stated so as to hold beside
them:

| Definition | What happens |
|---|---|
| `ApprovalFlow!DecidedOnce` | until the caller has left, a second answer is accepted, applied and audited |
| `ApprovalFlow!WrittenRulesSurvive` | `security.yaml` is truncated in place; a stop inside the write loses every rule |
| `EventSubscriber!CompleteMeansCompleted` | any event of the agent counts for its batch, a heartbeat or a blocked task included |
| `EventSubscriber!StallReportedOnce` | the report of a stall itself counts as activity of the channel |
| `ChatRuntime!PauseIsTemporary` | when the call for the summary raises, nothing lifts the pause |
| `ChatRuntime!ArchivedIsNotResumed` | a new process resumes the latest session, archived or not |
| `FilesystemTool!EveryWatchIsTold` | of several subscriptions of an agent the first that matches a path swallows its event |
| `ContextIncludes!PromptIsWhatWasRead` | the hash is of the joined texts (`effective_context.py:299`): a text that moves from an include into the file that mentions it leaves it the same; and the block is built from a second reading, so that an edit between the two is kept under the hash of the first (`effective_context.py:275`) |
| `ExternalMCP!EveryProcessIsListed` | overlapping starts, and reloads, orphan a process |
| `ConfigMigration!BackupsStay` | the backup of a tool's file is found as a tool's file and migrated itself |

What else the models reach, or was met while modelling:

* Approvals: request ids start again after a restart, so an old card can answer a new
  request (`AnswerReachesItsRequest` is stated within one session of one process).
* Sandboxes: a reset brings a destroyed sandbox back outside the quota (`QuotaHolds`
  counts the ones that were never destroyed); a reset whose removal failed silently
  keeps the old container.
* Events: a channel that became active while another one was being reported is still
  judged by its old activity; a second `start` of the dispatcher handles each event
  twice (`event_dispatcher.py:218`).
* Chat: the loop is to "continue after non-fatal processing errors" (`app.py:1532`), but
  what a message raises before the `try` of `_handle_payload` ends it, with its session
  there: an upload whose scope the storage does not know (`file_storage.py:207`, by
  `app.py:1580`), a size that is no number (`app.py:1675`), a payload that is no object
  (`app.py:1574`) or no UTF-8.  `LoopSurvivesItsTurns` excepts such a message
  (of the kind `unfit`).
* Sessions: the idle monitor's `end_session` awaits the monitor itself; tasks of a
  crashed process stay active; the deletion of the current session ends the chat loop
  with the next message.
* Stores: a torn `registry.json` reads as empty (`file_storage.py:114`), one-time files
  survive a turn that fails, the route of the bulk deletion is never reached
  (`app.py:4079`); a restoration overwrites the file without a version; a second
  cleanup of a session deletes the keys the first one spared; decorated functions are
  indexed twice; excluded directories are looked for in the absolute path; the watcher
  keeps its index after a refresh, and ends when a file goes away under it
  (`index.py:472`) or a link leads out of the root (`index.py:520`); a name with capitals
  inside is not found among the words of the symbols, which are split there; `rg` outlives a cancelled request; a malformed event
  ends the writer of events (`event_log.py:177`); the cost warning only sees the newest
  10 000 calls of a session, and so may name an agent that another has cost more than
  (`token_logger.py:610`).
* Project: a container that Docker is restarting is none of those `stop_all` stops
  (`container_manager.py:1188`), and comes up beside those of the next project; a restart
  by name brings up a container of any project; two switches that overlap leave
  containers of both; a configuration text that is brought back between the handler's
  read and the next poll is never applied (`hot_reload.py:236`); a failed load leaves the project set, so that a second switch to it answers
  "already_active"; a handler that raises ends the configuration watcher's task while
  it counts as running; replaced and new files are never handed over; a compaction
  overwrites what an agent has heard during it (`base.py:813`).
* Python tool: the shared sandbox keeps the mount of the call that created it; no end
  is published when a run raises (`executor.py:123`); code that catches `Exception`
  swallows the one alarm of its time limit; the installation of nothing succeeds
  locally and fails in the container.

## 6. The proofs

| Theorem | Module | States |
|---|---|---|
| `TypeCorrect` | ApprovalFlowProofs | `Spec => []TypeOK` |
| `CallerGetsFirstAudit` | ApprovalFlowProofs | `Spec => []FirstAuditWins` |
| `AnswersReachTheirRequests` | ApprovalFlowProofs | `Spec => []AnswerReachesItsRequest` |
| `SilenceIsGranted` | ApprovalFlowProofs | `Spec => []SilentAllowIsGranted` |
| `DurableDecisions` | ApprovalFlowProofs | `Spec => []DurableDecisionsHold` |
| `FlowImplementsGate` | ApprovalFlowProofs | `Spec => GateSpec` |
| `Isolation` | SandboxManagerProofs | `Spec => []IsolationHolds` |
| `OneShared` | SandboxManagerProofs | `Spec => []OneSharedSandbox` |
| `QuotaTheorem` | SandboxManagerProofs | `Spec => []QuotaHolds` |
| `ReadyMeansRunning` | SandboxManagerProofs | `Spec => []ReadySandboxRuns` |
| `CompleteBatches` | EventSubscriberProofs | `Spec => []CompleteIsWhole` |
| `EventsAreCollectedOnce` | EventSubscriberProofs | `Spec => []CollectedOnce` |
| `UrgentEvents` | EventSubscriberProofs | `Spec => []UrgentNeverBatched` |
| `OpenExpectations` | EventSubscriberProofs | `Spec => []OpenHasTimer` |
| `DetectorTypes` | EventSubscriberProofs | `Spec => []DetectorTypeOK` |
| `MetadataAgree` | ChatRuntimeProofs | `SessionSpec => []SessionRecordAgrees` |
| `TranscriptsAreLogs` | ChatRuntimeProofs | `ChatSpec => []TranscriptIsTheLog` |
| `RepliesFollowQuestions` | ChatRuntimeProofs | `ChatSpec => []ReplyFollowsQuestion` |
| `HistoryIsTheSessions` | ChatRuntimeProofs | `ChatSpec => []HistoryStaysInSession` |
| `AnsweredTurnsAreRemembered` | ChatRuntimeProofs | `ChatSpec => []AnsweredTurnIsRemembered` |
| `TurnsDoNotEndTheLoop` | ChatRuntimeProofs | `ChatSpec => LoopSurvivesItsTurns` |
| `PersistentKeysSurvive` | StoresProofs | `KVSpec => []PersistentSurvivesCleanup` |
| `StoredFilesStay` | StoresProofs | `StorageSpec => []StoredFilesAreThere` |
| `SoleWatchersAreTold` | StoresProofs | `FsSpec => []SoleWatcherIsTold` |
| `HistoriesKeepTheNewest` | StoresProofs | `FsSpec => HistoryKeepsTheNewest` |
| `TheIndexFollows` | StoresProofs | `CodeSpec => []IndexFollowsDisk` |
| `ExcerptsAreWhole` | StoresProofs | `SearchSpec => []ExcerptsHoldTheirLines` |
| `LogsAreSeen` | StoresProofs | `LogSpec => []LogsAreRead` |
| `PromptsAreFresh` | ReadingProofs | `ContextSpec => PromptIsFresh` |
| `IncludesAreReachable` | ReadingProofs | `ContextSpec => []IncludesAreTheReachableFiles` |
| `TranscriptsReadBack` | ReadingProofs | `TranscriptSpec => []TranscriptReadsBack` |
| `WarningsNameTheDearest` | ReadingProofs | `TokenSpec => WarningNamesTheDearest` |
| `OnlyTheProjectRuns` | ProjectProofs | `RuntimeSpec => []RunningIsOfProject` |
| `ProcessesAreReached` | ProjectProofs | `McpSpec => []RunningIsListed` |
| `SettingsSurvive` | ProjectProofs | `MigrationSpec => []SettingsAreKept` |
| `OpenChannelsMove` | ProjectProofs | `LoopSpec => []OpenChannelMovesOn` |
| `AgentsRemember` | ProjectProofs | `AgentSpec => MemoryIsKept` |
| `CallsRunWhereAsked` | ProjectProofs | `PythonSpec => []RunsWhereAsked` |

They hold for all finite or infinite sets of requests, calls, agents, actions,
tasks, batches, channels, keys, clients, projects, servers, files and jobs and all
rules and scopes, from the assumptions declared in the modules: `InitialRules` is a
table of rules, `Cover` maps actions and scopes to rules, bounds and the quota are
natural numbers, paths are sequences of names, and `allowed_paths`, being a list, has a
longest root among those around a path.  The files that may be included are finitely many
and `Outside` is none of them (`ContextConstants`), the bodies of messages are sequences of
lines (`TranscriptConstants`), prices are numbers and a query returns at least one call
(`TokenConstants`; the code's limit is 10 000).  The parsers yield no `method` in Python and no
`function` in Java (`CodeConstants`), the source files are finitely many and ranked by their
paths (`SearchesAreBounded`), and the symbols of a file lie within its lines and, being
nodes of one tree, nest or are apart, where those that are apart may share a line, one
ending where the other begins (`SearchConstants`).  The containers of agents and tools have
names of containers (`RuntimeConstants`), and what a configuration file says at first passes
the validation (`ReloadConstants`).  One theorem has
hypotheses of its own: `AnsweredTurnsAreRemembered` takes `RetainRecent` and `MaxHistory`
to be at least 2, where the code has 4 and 12; with 1 a compaction would keep the reply
and drop its question.

The arguments:

* **First answer.**  `FirstAuditWins` is not inductive: a step of `Return` needs to
  know what the future holds.  The invariant adds that a future that holds a decision
  holds the first entry of the audit log of its request, and that a request that is
  still waited for, has a future in the map and an empty future has no audit entry;
  `FinishResolve` is the only action that touches both, and does so without an await
  between them.  The refinement follows from the same invariant: `FinishResolve` is the
  gate's `Record`, `Return` its `Return` or, for a cancelled future, its `Raise`,
  time-outs and cancellations are `Raise` of one caller, a restart `Raise` of all that
  wait.
* **Durable decisions.**  The invariant `DurableInv` has two parts: every rule of the
  file is among the compiled ones (an edit by hand removes from the file only, and the
  engine follows with the next reload), and the file holds the rule of every permanent
  decision in force, unless a torn write has emptied it.  `Evaluate`'s order does the
  rest: ask before deny before everything that is silent.
* **Answers and grants.**  Identifiers are counted, so `IdsInv` says that no request of
  the current era has one above the counter, that requests of one era with one identifier
  are the same, and that pending requests are of the current era; an era ends where the
  counter starts again.  `GrantInv` says of every allowing rule, in the file and compiled,
  and of every entry of the session memory that the user wrote or granted it.
* **Sandboxes.**  `IsolationHolds` needs that a task only ever holds or releases the
  sandbox it was attached to and that the pointer never points to an isolated one;
  the quota needs that the live sandboxes are among the active ones at the moment of
  the check, and that boxes beyond the counter have no record.  For `ReadySandboxRuns`
  it is not enough to look at READY records: a call that is about to make one READY is
  suspended while others may remove its container.  `AccountedInv` says of those records
  as well that the container runs or that somebody has a reason to have taken it away;
  every step that ends one reason leaves another.
* **Batches.**  An open batch's buffered results are exactly the expected keys that
  are no longer pending, one event per key; the invariant relates `pending`, `results`,
  `current` and `log` and says that ids in the maps stand for distinct open calls, each
  of which has a timer, so every call of `expect` ends when its sleep does.  Urgent
  events are kept out because `Offer` looks at the type first and everything in
  `results` has a type that may be batched.
  For `CollectedOnce` the invariant `OnceInv` follows the numbers of the events: no two in
  the queue have the same, and none in the queue has that of a collected one.
* **Keys.**  A cleanup deletes what its copy of the index does not name, so the
  invariant says that durable keys (set persistently, with both commands, before the
  first cleanup) are in the index and in the copy of every cleanup under way.
* **Sessions.**  The total of a table of tasks is the number of pairs of a task and one of
  its tokens, so that it needs no induction.  `SessionInv` follows the two files each
  operation writes, and the stops between them.
* **Chat.**  Every step of the loop has one of seven shapes (`LoopShape`): the turn rests,
  goes on or begins to compact; the marker, the question or the reply is recorded; or the
  history is compacted.  Each theorem has one case per shape and one for what the user
  does to sessions.  What is in the history is in the transcript; after a compaction the
  answered turn is in the newest part, which `NewestProperties` describes.
* **Agents and loops.**  `MemoryIsKept` compares two windows message by message: `At`
  drops only disposable ones, `Newest` only the oldest.  A window that is cut by new
  limits is the end of one that was harmless, and `OpenChannelsMove` shows for each of
  the three checks that the end of a harmless window is harmless.
* **Files.**  `cut` names the records a stop left behind, and each operation moves a
  record between the two tables in one rewriting, before or after which it touches the
  bytes.
* **Watches and versions.**  The snapshot of a file its agent watches alone is what the
  agent was told, and after a poll it is the text of the file (`WatchInv`).  The first
  attempt at the proof failed rightly: an agent that watches a file through one
  subscription after another starts with a snapshot it was never told of, so `shared`
  counts subscriptions in turn as well.  The versions of a file are numbered by slots and
  have distinct times (`HistoryInv`), so that the evicted one is the oldest.
* **Code index.**  A file that still has the time the watcher noted has been indexed since
  its last change, and every document was met by a scan or was there before the first
  (`WatcherInv`).  For the search, the files ranked before one are among its rivals
  (`FewRivalsNoLoss`), so fewer rivals than the limit leave it in the list.
* **Prompts.**  Unless an edit fell between its two readings, the cached block has the words
  its hash was taken of (`CacheInv`), so when the hash of what is read now is the same, the
  block reads the same word for word.  The last refresh of a turn has read `looked`, and
  nothing changes the block between it and the prompt.  Nothing needs to be known of the
  recursion that finds the files.
* **Recursion.**  Induction theorems that take a predicate as a parameter cannot be
  instantiated, so `SequencePartsProofs` states them about sets: a set of numbers that
  is not empty has a least one, and `RecursionExists` says that a function defined by what
  comes before it in a well-founded order is defined everywhere.  The recursive functions
  of the model are shown to be instances of it (`ResolveDefined`, `SumOfNumbers`, the
  reader of a transcript), after which a property of all their values is proved by taking
  the least argument at which it fails.
* **Includes.**  A call of the resolution comes after the deeper ones and, within a file,
  after those further on (`CallOrder`); the depth limit makes this well-founded although
  files may refer to each other in circles.  `Sound` says of a call what it adds: only
  wanted files, each once, within the limits, and, when no limit was met, all that the
  rest of the file refers to, and whatever the added files refer to in turn.  The files
  reached in as many steps as there are files are then all that can be reached.
* **Transcripts.**  `TranscriptInv` marks the line at which each message of the plain start
  ends: the blocks between the marks are the messages as they were written, and a torn line can
  only lie behind the last mark.  A reader that begins at a mark takes the block up to its
  own end, whatever headings are inside, and goes on at the next mark, so what it reads
  agrees message by message.
* **Costs.**  A sum of numbers is a number, so the agents of the calls that a query
  returned have a dearest; an agent without a call among them has cost nothing there.  The
  property had to be restated: the code adds up the calls that the query of the whole
  session returned, and these are cut to its limit, so beyond it an agent may have cost
  more in all than the one that is named.
* **Excerpts.**  Each kind of block is an interval around the line that matched, and the
  proof shows for each kind that two intervals nest or are apart, or meet in the one line
  their symbols share (`Meet`).  It showed that the
  clause about headings was an overclaim for configuration files, whose sections are
  runs of lines without a blank one; the property now says documents.
* **Logs.**  A record that was there when the reader began is read, archived, or has as
  many records before it as fill the pages read so far (`ReaderInv`).  New lines only add
  to what comes before a record, so it never moves to a page already turned; when the
  total is reached no record is left.  The buckets are counted like the totals, by a
  bijection from records to pairs of an agent and a number.
* **Containers.**  `RunningInv` says, until two calls overlap (`OneAtWork`), that at most
  one call is at work, that whatever is up, or may come up, is the current project's but for
  the strays, that the list `stop_all` works through holds all of it, and that what is
  started is started for the project.  After an overlap nothing is known until a load finds
  everything down.
* **Servers.**  `McpInv` adds to the types that a start which met no other call of its
  server is the only one of it, will hang its process on the object in the table, and
  finds that object without one (`StartsAreSound`).
* **Settings.**  `MigrationInv` adds that files are numbered up to the count of the
  backups, so that a backup overwrites nothing; a rewriting, cut short or not, then
  leaves the settings in the backup made just before.
* **Python.**  The container mounts the longest allowed root around the directory of
  some call made for it (`PyInv`).  With a path below the same roots, the prefix that is
  stripped and the prefix that is mounted are equal; this rests on lemmas about prefixes
  of sequences.

Only model-checked: the liveness properties (`CallersReturn`, `EmptySandboxIsDestroyed`,
`OverdueIsFlagged`, `StatusReturnsToIdle`, `ChangeIsApplied`, `AgentHearsAgain`), which
are out of the prover's reach.  Every invariant and every action property that a passing
run checks is proved.

## 7. Not modelled

* **InterventionHandler** has no state: each handler makes one call of the container
  manager or publishes one event, and `app.py` does not register them.  Two things were
  noticed: `restart_container` is called with names that lack the prefix the manager
  gives them, and failures are swallowed.
* **ToolRouter, FRS manager.**  The router is a table of calls behind the approval
  flow, which is modelled; the FRS manager edits one text file by section numbers.
* **HTTP endpoints and settings stores.**  Parsing, proxies and settings files without
  steps in between.  Endpoints that change sessions, files or servers are actions of
  the modules of these components.
* **Ollama tool, MCP adapter and inventory, MCP registry, model catalog.**  Translations
  and queries of services, without state of their own.
* **Message formats, configuration models.**  Encoding and schemas.
* **CLI, host worker, web UI.**  Process start-up and presentation; the web interface's
  readers of logs and transcripts are modelled with the files they read.

Of the components that are partly modelled: image builds, log streaming and the
inspection for the web UI (`ContainerManager`); privacy profiles, secrets and
placeholders, which only decide whether a start fails (`ExternalMCP`); the tool loop and
prompt caching of an agent, whose effects are on tools and providers, and the contents of
its documents, which are read into the prompt and nothing else (`AgentRuntime`); a start of the dispatcher that overlaps a stop, and its list of recent interventions.

Smaller things the models leave out: edits within one resolution of the includes
(`ContextIncludes` has them between the two of a refresh), the warnings in the snapshots and
the times in them; symbolic links that stay inside the root (`CodeIndex`); the list of recent
projects (`project_switcher.py:278`); a cancellation inside the await of the audit log when a
sandbox is released, and a container an earlier process left running
(`container_manager.py:377`), which the Python tool would take over with its mounts; a stop
inside the writing of a file's bytes (`file_storage.py:237`), of which `StoredFilesAreThere`
only says that they are there; tears inside a character of several bytes, with which
`read_text` raises (`logs.py:276`), and inside the heading of a transcript.

What could come next: an abstract specification of a session's log that `ChatRuntime`
implements; a restart between the phases of a switch.
