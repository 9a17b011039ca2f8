---------------------------- MODULE SandboxManager ----------------------------
(***************************************************************************)
(* Allocation, reset and release of disposable sandboxes:                  *)
(* src/faith_pa/pa/sandbox_manager.py on top of                            *)
(* src/faith_pa/pa/container_manager.py.                                   *)
(*                                                                         *)
(* The manager runs on one asyncio loop.  Its runtime, the container       *)
(* manager, creates or removes the container as soon as it is called and   *)
(* then suspends while it publishes an event; the manager's own            *)
(* bookkeeping runs when that await returns.  So an action is the code     *)
(* between two such awaits, and tasks interleave between the change of the *)
(* container and the change of the record.  The events and audit entries   *)
(* after the last change of a call touch no state: the call ends with that *)
(* change.                                                                 *)
(***************************************************************************)
EXTENDS Naturals, FiniteSets

CONSTANTS Tasks,      \* the tasks that allocate and release sandboxes
          Agents,     \* agent identifiers
          AgentOf,    \* the agent a task works for
          Resets,     \* the calls of reset
          Quota,      \* quota.max_concurrent
          MaxBoxes    \* bound on the sandboxes ever created

ASSUME SandboxAssumption ==
  /\ AgentOf \in [Tasks -> Agents]
  /\ Quota \in Nat
  /\ MaxBoxes \in Nat

Boxes == 1..MaxBoxes
None == 0
Idle == [at |-> "idle", box |-> None]

VARIABLES counter,       \* _counter
          state,         \* record.state; "none" while there is no record
          mode,          \* record.allocation_mode
          agents,        \* record.agents
          shared,        \* _shared_sandbox_id
          running,       \* the containers that exist
          task,          \* where each task is, and the sandbox it is about
          reset,         \* where each call of reset is
          everDestroyed  \* the records that have been DESTROYED at some time

vars == <<counter, state, mode, agents, shared, running, task, reset, everDestroyed>>

States == {"none", "creating", "ready", "resetting", "destroyed"}
Modes == {"shared", "isolated"}

\* Where a call of reset is; "failed" when no container could be created.
ResetSteps == {"idle", "clearing", "recreating", "done", "failed"}

TypeOK ==
  /\ counter \in 0..MaxBoxes
  /\ state \in [Boxes -> States]
  /\ mode \in [Boxes -> Modes]
  /\ agents \in [Boxes -> SUBSET Agents]
  /\ shared \in Boxes \cup {None}
  /\ running \subseteq Boxes
  /\ task \in [Tasks -> {Idle} \cup [at : {"starting", "holding", "auditing", "destroying"}, box : Boxes]]
  /\ reset \in [Resets -> {Idle} \cup [at : ResetSteps \ {"idle"}, box : Boxes]]
  /\ everDestroyed \subseteq Boxes

Init ==
  /\ counter = 0
  /\ state = [s \in Boxes |-> "none"]
  /\ mode = [s \in Boxes |-> "isolated"]
  /\ agents = [s \in Boxes |-> {}]
  /\ shared = None
  /\ running = {}
  /\ task = [t \in Tasks |-> Idle]
  /\ reset = [r \in Resets |-> Idle]
  /\ everDestroyed = {}

\* _active_count counts these.
Active == {s \in Boxes : state[s] \notin {"none", "destroyed"}}

\* The runtime removes the container of s.  An error of Docker is swallowed:
\* the call succeeds and the container stays.
Remove(s) == running' \in {running \ {s}, running}

At(t, at, s) == task' = [task EXCEPT ![t] = [at |-> at, box |-> s]]

-----------------------------------------------------------------------------
(* allocate.  shareable is the code's shared_ok: a shared-mode request that *)
(* is neither destructive nor in need of isolation.                        *)

\* A shareable request joins the shared sandbox, whatever state it is in.
Reuse(t) ==
  /\ task[t].at = "idle"
  /\ shared # None
  /\ agents' = [agents EXCEPT ![shared] = @ \cup {AgentOf[t]}]
  /\ At(t, "holding", shared)
  /\ UNCHANGED <<counter, state, mode, shared, running, reset, everDestroyed>>

\* A bug the runs must notice: the quota check is off by one.
QuotaOffByOne == Cardinality(Active) <= Quota

\* The quota check; when it fails SandboxQuotaExceeded is raised.
WithinQuota == Cardinality(Active) < Quota

\* A bug the runs must notice: every new sandbox becomes the shared one.
NewRecordAlwaysShared(t, shareable) ==
  LET s == counter + 1 IN
  /\ counter' = s
  /\ state' = [state EXCEPT ![s] = "creating"]
  /\ mode' = [mode EXCEPT ![s] = IF shareable THEN "shared" ELSE "isolated"]
  /\ agents' = [agents EXCEPT ![s] = {AgentOf[t]}]
  /\ shared' = s

\* A bug the runs must notice: the pointer to the shared sandbox is not set.
NewRecordNotPublished(t, shareable) ==
  LET s == counter + 1 IN
  /\ counter' = s
  /\ state' = [state EXCEPT ![s] = "creating"]
  /\ mode' = [mode EXCEPT ![s] = IF shareable THEN "shared" ELSE "isolated"]
  /\ agents' = [agents EXCEPT ![s] = {AgentOf[t]}]
  /\ UNCHANGED shared

\* The new record, in CREATING, and the pointer to it when it is a shared one.
NewRecord(t, shareable) ==
  LET s == counter + 1 IN
  /\ counter' = s
  /\ state' = [state EXCEPT ![s] = "creating"]
  /\ mode' = [mode EXCEPT ![s] = IF shareable THEN "shared" ELSE "isolated"]
  /\ agents' = [agents EXCEPT ![s] = {AgentOf[t]}]
  /\ shared' = IF shareable THEN s ELSE shared

\* A bug the runs must notice: a failed creation is not noticed.
AllocateIgnoresFailure(t, shareable) ==
  /\ task[t].at = "idle"
  /\ ~(shareable /\ shared # None)
  /\ WithinQuota
  /\ counter < MaxBoxes
  /\ NewRecord(t, shareable)
  /\ running' \in {running, running \cup {counter'}}
  /\ At(t, "starting", counter')
  /\ UNCHANGED <<reset, everDestroyed>>

\* A new sandbox, up to the await inside ensure_running; or up to the exception
\* when the container cannot be created, which leaves the record as it is.
Allocate(t, shareable) ==
  /\ task[t].at = "idle"
  /\ ~(shareable /\ shared # None)
  /\ WithinQuota
  /\ counter < MaxBoxes
  /\ NewRecord(t, shareable)
  /\ \/ /\ running' = running \cup {counter'}
        /\ At(t, "starting", counter')
     \/ UNCHANGED <<running, task>>
  /\ UNCHANGED <<reset, everDestroyed>>

\* The container is up: READY, and the record is returned.
Started(t) ==
  /\ task[t].at = "starting"
  /\ state' = [state EXCEPT ![task[t].box] = "ready"]
  /\ At(t, "holding", task[t].box)
  /\ UNCHANGED <<counter, mode, agents, shared, running, reset, everDestroyed>>

-----------------------------------------------------------------------------
(* release.                                                                *)

\* Up to the await of the audit entry.
Release(t) ==
  /\ task[t].at = "holding"
  /\ agents' = [agents EXCEPT ![task[t].box] = @ \ {AgentOf[t]}]
  /\ At(t, "auditing", task[t].box)
  /\ UNCHANGED <<counter, state, mode, shared, running, reset, everDestroyed>>

\* A bug the runs must notice: shared sandboxes are never destroyed.
AuditedIsolatedOnly(t) ==
  /\ task[t].at = "auditing"
  /\ LET s == task[t].box IN
       IF mode[s] = "isolated"
       THEN Remove(s) /\ At(t, "destroying", s)
       ELSE UNCHANGED running /\ At(t, "idle", None)
  /\ UNCHANGED <<counter, state, mode, agents, shared, reset, everDestroyed>>

\* The last agent of a shared sandbox, and the agent of an isolated one, remove
\* the container; the call then suspends inside the runtime's destroy.
Audited(t) ==
  /\ task[t].at = "auditing"
  /\ LET s == task[t].box IN
       IF mode[s] = "isolated" \/ agents[s] = {}
       THEN Remove(s) /\ At(t, "destroying", s)
       ELSE UNCHANGED running /\ At(t, "idle", None)
  /\ UNCHANGED <<counter, state, mode, agents, shared, reset, everDestroyed>>

\* The rest of release, which does not look at record.agents again.
Destroyed(t) ==
  /\ task[t].at = "destroying"
  /\ LET s == task[t].box IN
       /\ state' = [state EXCEPT ![s] = "destroyed"]
       /\ shared' = IF shared = s THEN None ELSE shared
       /\ everDestroyed' = everDestroyed \cup {s}
  /\ At(t, "idle", None)
  /\ UNCHANGED <<counter, mode, agents, running, reset>>

-----------------------------------------------------------------------------
(* reset, called by the PA for a sandbox it judges polluted.               *)

BeginReset(r, s) ==
  /\ reset[r].at = "idle"
  /\ state[s] # "none"
  /\ state' = [state EXCEPT ![s] = "resetting"]
  /\ Remove(s)
  /\ reset' = [reset EXCEPT ![r] = [at |-> "clearing", box |-> s]]
  /\ UNCHANGED <<counter, mode, agents, shared, task, everDestroyed>>

\* The container is created, or found running and kept as it is, or it cannot
\* be created, which ends the call.
Cleared(r) ==
  /\ reset[r].at = "clearing"
  /\ LET s == reset[r].box IN
       \/ /\ running' = running \cup {s}
          /\ reset' = [reset EXCEPT ![r].at = "recreating"]
       \/ /\ s \notin running
          /\ reset' = [reset EXCEPT ![r].at = "failed"]
          /\ UNCHANGED running
  /\ UNCHANGED <<counter, state, mode, agents, shared, task, everDestroyed>>

Restarted(r) ==
  /\ reset[r].at = "recreating"
  /\ state' = [state EXCEPT ![reset[r].box] = "ready"]
  /\ reset' = [reset EXCEPT ![r].at = "done"]
  /\ UNCHANGED <<counter, mode, agents, shared, running, task, everDestroyed>>

-----------------------------------------------------------------------------

\* What a call of the manager does by itself once it has begun.
TaskStep(t) == Started(t) \/ Audited(t) \/ Destroyed(t)

Next ==
  \/ \E t \in Tasks :
       \/ Reuse(t)
       \/ \E shareable \in BOOLEAN : Allocate(t, shareable)
       \/ Release(t)
       \/ TaskStep(t)
  \/ \E r \in Resets :
       \/ \E s \in Boxes : BeginReset(r, s)
       \/ Cleared(r)
       \/ Restarted(r)

Spec == Init /\ [][Next]_vars

\* The event loop resumes every call whose await has returned; nobody has to
\* release or reset anything.
FairSpec == Spec /\ \A t \in Tasks : WF_vars(TaskStep(t))

-----------------------------------------------------------------------------
(* Properties.                                                             *)

\* Sandboxes that were allocated and never destroyed.
Live == {s \in Boxes : state[s] # "none"} \ everDestroyed

\* However allocations, releases and failed creations interleave, at most Quota
\* sandboxes are live: the check and the new record are not separated by an
\* await.
QuotaHolds == Cardinality(Live) <= Quota

\* An isolated sandbox is only ever attached to one agent.
IsolationHolds ==
  \A s \in Boxes : mode[s] = "isolated" => \A a, b \in agents[s] : a = b

\* There is at most one live shared sandbox, and requests find it while it is
\* still being created.
OneSharedSandbox ==
  \A s \in Live : mode[s] = "shared" => s = shared

\* A sandbox that is READY has its container, unless it is being destroyed or was
\* destroyed before, or a reset has removed the container and not recreated it.
ReadySandboxRuns ==
  \A s \in Boxes : state[s] = "ready" =>
    \/ s \in running \cup everDestroyed
    \/ \E t \in Tasks : task[t] = [at |-> "destroying", box |-> s]
    \/ \E r \in Resets : reset[r].box = s /\ reset[r].at \in {"clearing", "failed"}

\* A sandbox without agents is destroyed, unless an agent joins it again.
EmptySandboxIsDestroyed ==
  \A s \in Boxes :
    (state[s] # "none" /\ agents[s] = {}) ~> (s \in everDestroyed \/ agents[s] # {})

\* Shared sandboxes are destroyed once no agents remain attached.
DestroyedHasNoAgents ==
  \A s \in Boxes : state[s] = "destroyed" => agents[s] = {}
=============================================================================
