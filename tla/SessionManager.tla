---------------------------- MODULE SessionManager ----------------------------
(***************************************************************************)
(* The SessionManager of src/faith_pa/pa/session.py: the session           *)
(* directories under .faith/sessions, the session the process writes to,   *)
(* and the tasks of that session in memory.                                *)
(*                                                                         *)
(* Every method but end_session runs without a suspension.  end_session    *)
(* awaits the idle monitor it has just cancelled, when there is one, and   *)
(* only after that await forgets the session: Closing is the gap.  The     *)
(* Project Agent's app configures no idle timeout, so that for it the gap  *)
(* does not exist (IdleTimeout = FALSE).                                   *)
(*                                                                         *)
(* Sessions are numbered in the order of started_at and tasks in the order *)
(* of their creation.  A directory is "full" when it holds                 *)
(* session.meta.json, "bare" when a later write recreated it without.  The *)
(* names of sessions and the agents and channels of tasks are left out.    *)
(***************************************************************************)
EXTENDS Naturals, Sequences, FiniteSetsExt, Functions

CONSTANTS MaxSessions,  \* bound on the calls of start_session
          MaxTasks,     \* bound on the calls of create_task
          MaxTokens,    \* bound on the tokens of one task
          MaxClosing,   \* bound on the calls of end_session that wait at a time
          IdleTimeout   \* whether idle_timeout_seconds is set

ASSUME SessionConstants ==
  /\ MaxSessions \in Nat /\ MaxTasks \in Nat /\ MaxTokens \in Nat /\ MaxClosing \in Nat
  /\ IdleTimeout \in BOOLEAN

VARIABLES disk,       \* the session directories, by session number
          current,    \* current_session; 0: None
          tasks,      \* self.tasks: what is in memory of the session's tasks
          active,     \* current_session.active_task_id; 0: None
          made,       \* the number of tasks ever created
          idle,       \* _idle_task: "none", "sleeping", "cancelled", "ending"
          closing     \* the calls of end_session that wait for the idle monitor

sessionVars == <<disk, current, tasks, active, made, idle, closing>>

NoTasks == <<>>

NewDirectory ==
  [dir |-> "full", status |-> "active", open |-> {}, total |-> 0, log |-> <<>>]

Full(d, s) == s \in DOMAIN d /\ d[s].dir = "full"

\* A write below a directory that is gone recreates it, without its metadata.
Touch(d, s) == IF d[s].dir = "none" THEN [d EXCEPT ![s].dir = "bare"] ELSE d

\* get_active_task: the task of the pointer when it is active, else the newest active one.
ActiveTasks(ts) == {t \in DOMAIN ts : ts[t].status = "active"}

ActiveTask(ts, pointer) ==
  IF pointer \in ActiveTasks(ts) THEN pointer
  ELSE IF ActiveTasks(ts) = {} THEN 0
  ELSE Max(ActiveTasks(ts))

\* _sync_session_totals: the totals are recomputed from the tasks in memory, as the
\* number of tokens of all tasks.
TotalOf(ts) == Cardinality(UNION {{t} \X (1..ts[t].tokens) : t \in DOMAIN ts})

\* _latest_session_path: the newest with metadata; without any, one without.
Latest(d) ==
  LET full == {s \in DOMAIN d : d[s].dir = "full"}
      bare == {s \in DOMAIN d : d[s].dir = "bare"}
  IN IF full # {} THEN {Max(full)} ELSE bare

SessionInit ==
  /\ disk = <<>>
  /\ current = 0
  /\ tasks = NoTasks
  /\ active = 0
  /\ made = 0
  /\ idle = "none"
  /\ closing = 0

-----------------------------------------------------------------------------
(* Sessions *)

\* start_session: the previous idle monitor is cancelled, a new one is started.
StartSession ==
  /\ Len(disk) < MaxSessions
  /\ disk' = Append(disk, NewDirectory)
  /\ current' = Len(disk) + 1
  /\ tasks' = NoTasks
  /\ active' = 0
  /\ idle' = IF IdleTimeout THEN "sleeping" ELSE idle
  /\ UNCHANGED <<made, closing>>

\* The metadata of an ended session; the tasks in memory no longer run.
Ended(record, ts) ==
  [record EXCEPT !.status = "ended", !.open = @ \ DOMAIN ts, !.total = TotalOf(ts)]

Finished(ts) == [t \in DOMAIN ts |-> [ts[t] EXCEPT !.status = IF @ = "active" THEN "complete" ELSE @]]

\* end_session up to its await, or to its end when no idle monitor sleeps.
EndSession(byMonitor) ==
  /\ current # 0
  /\ Full(disk, current)
  /\ disk' = [disk EXCEPT ![current] = Ended(@, tasks)]
  /\ active' = 0
  /\ IF idle # "none"
     THEN /\ closing < MaxClosing
          /\ closing' = closing + 1
          /\ idle' = IF byMonitor THEN "ending" ELSE "cancelled"
          /\ tasks' = Finished(tasks)
          /\ UNCHANGED current
     ELSE /\ current' = 0
          /\ tasks' = NoTasks
          /\ UNCHANGED <<closing, idle>>
  /\ UNCHANGED made

\* end_session without metadata to read: the first active task is marked, nothing else.
EndSessionFails(byMonitor) ==
  /\ current # 0
  /\ ~Full(disk, current)
  /\ tasks' = [t \in DOMAIN tasks |->
                 IF ActiveTasks(tasks) # {} /\ t = Min(ActiveTasks(tasks))
                 THEN [tasks[t] EXCEPT !.status = "complete"] ELSE tasks[t]]
  /\ idle' = IF byMonitor THEN "none" ELSE idle
  /\ UNCHANGED <<disk, current, active, made, closing>>

\* end_session after its await.  (The monitor that awaits itself gets the
\* CancelledError of its own cancel and goes on the same way.)
ForgetSession ==
  /\ closing > 0
  /\ closing' = closing - 1
  /\ current' = 0
  /\ tasks' = NoTasks
  /\ active' = 0
  /\ idle' = IF idle \in {"cancelled", "ending"} THEN "none" ELSE idle
  /\ UNCHANGED <<disk, made>>

\* _idle_monitor after its sleep: it counts from the start of the session.
IdleMonitor ==
  /\ idle = "sleeping"
  /\ \/ /\ current = 0
        /\ idle' = "none"
        /\ UNCHANGED <<disk, current, tasks, active, made, closing>>
     \/ EndSession(TRUE)
     \/ EndSessionFails(TRUE)

\* activate_session: its tasks are not read back, its status is not changed.
ActivateSession(s) ==
  /\ Full(disk, s)
  /\ disk[s].status # "archived"
  /\ current' = s
  /\ tasks' = NoTasks
  /\ active' = 0
  /\ UNCHANGED <<disk, made, idle, closing>>

\* resume_latest_session in a new process: whatever is not "ended" is resumed.
Resumed(d) == {s \in Latest(d) : d[s].dir = "full" /\ d[s].status # "ended"}

ResumeLatest ==
  /\ current' = IF Resumed(disk) = {} THEN 0 ELSE Max(Resumed(disk))
  /\ tasks' = NoTasks
  /\ active' = 0
  /\ idle' = "none"
  /\ closing' = 0
  /\ UNCHANGED <<disk, made>>

ArchiveSession(s) ==
  /\ Full(disk, s)
  /\ disk' = [disk EXCEPT ![s].status = "archived"]
  /\ UNCHANGED <<current, tasks, active, made, idle, closing>>

\* restore_session: "active", whatever it was before.
RestoreSession(s) ==
  /\ Full(disk, s)
  /\ disk' = [disk EXCEPT ![s].status = "active"]
  /\ UNCHANGED <<current, tasks, active, made, idle, closing>>

\* delete_session behind its endpoint: one directory must remain.  Nothing asks
\* whether the session is the current one.
DeleteSession(s) ==
  /\ s \in DOMAIN disk
  /\ disk[s].dir # "none"
  /\ \E other \in DOMAIN disk \ {s} : disk[other].dir # "none"
  /\ disk' = [disk EXCEPT ![s] = [NewDirectory EXCEPT !.dir = "none", !.status = "ended"]]
  /\ UNCHANGED <<current, tasks, active, made, idle, closing>>

-----------------------------------------------------------------------------
(* Tasks.  What is in memory changes first; the metadata of a session that *)
(* was deleted is not there to be rewritten, and the call raises.          *)

NewTask == [status |-> "active", tokens |-> 0]

WithTask(ts, t) == [u \in DOMAIN ts \cup {t} |-> IF u = t THEN NewTask ELSE ts[u]]

\* The session's metadata is rewritten when it is there.
Rewritten(d, s, open, total) ==
  IF Full(d, s) THEN [d EXCEPT ![s].open = open, ![s].total = total] ELSE d

\* create_task: the task's directory is made first, with its parents.
CreateTask ==
  /\ made < MaxTasks
  /\ current # 0
  /\ made' = made + 1
  /\ active' = made'
  /\ tasks' = WithTask(tasks, made')
  /\ disk' = Rewritten(Touch(disk, current), current, disk[current].open \cup {made'}, TotalOf(tasks))
  /\ UNCHANGED <<current, idle, closing>>

\* A bug the runs must notice: the session's metadata is not told of the end.
FinishInMemoryOnly(t, status) ==
  /\ t \in DOMAIN tasks
  /\ tasks' = [tasks EXCEPT ![t].status = status]
  /\ UNCHANGED <<disk, current, active, made, idle, closing>>

\* complete_task and cancel_task
FinishTask(t, status) ==
  /\ t \in DOMAIN tasks
  /\ tasks' = [tasks EXCEPT ![t].status = status]
  /\ disk' = Rewritten(disk, current, disk[current].open \ {t}, TotalOf(tasks))
  /\ UNCHANGED <<current, active, made, idle, closing>>

Charged(ts, t) == [ts EXCEPT ![t].tokens = @ + 1]

\* record_token_usage: a first writer of the task recreates the task's directory.
RecordTokenUsage(t) ==
  /\ t \in DOMAIN tasks
  /\ tasks[t].tokens < MaxTokens
  /\ tasks' = Charged(tasks, t)
  /\ \E d \in {disk, Touch(disk, current)} :
       disk' = Rewritten(d, current, d[current].open, TotalOf(tasks'))
  /\ UNCHANGED <<current, active, made, idle, closing>>

-----------------------------------------------------------------------------
(* The session manager on its own *)

SessionNext ==
  \/ StartSession
  \/ EndSession(FALSE)
  \/ EndSessionFails(FALSE)
  \/ ForgetSession
  \/ IdleMonitor
  \/ ResumeLatest
  \/ CreateTask
  \/ \E t \in DOMAIN tasks : \/ \E status \in {"complete", "cancelled"} : FinishTask(t, status)
                             \/ RecordTokenUsage(t)
  \/ \E s \in DOMAIN disk :
       \/ ActivateSession(s)
       \/ ArchiveSession(s)
       \/ RestoreSession(s)
       \/ DeleteSession(s)

(***************************************************************************)
(* While the session's metadata is there, it lists exactly the tasks in    *)
(* memory that are active (and perhaps tasks of an earlier process, which  *)
(* no one finishes any more), and once there is a task in memory its total *)
(* is what these tasks have used: create_task, complete_task, cancel_task, *)
(* record_token_usage, end_session and activate_session keep the two       *)
(* together, and nothing of another session is counted.                    *)
(***************************************************************************)
SessionRecordAgrees ==
  current # 0 /\ Full(disk, current) =>
    /\ \A t \in DOMAIN tasks : t \in disk[current].open <=> tasks[t].status = "active"
    /\ tasks # NoTasks => disk[current].total = TotalOf(tasks)
=============================================================================
