----------------------------- MODULE ProjectRuntime -----------------------------
(***************************************************************************)
(* The containers of a project: src/faith_pa/pa/container_manager.py over  *)
(* Docker, and the switch from one project to another of                   *)
(* src/faith_pa/pa/project_switcher.py.  A container's name says nothing   *)
(* of the project it was created for.  Containers are stopped and started  *)
(* one by one, with an await after each; the order is left open.  Nothing  *)
(* keeps a second switch from beginning meanwhile, and Docker brings up    *)
(* again what went down without having been stopped.                       *)
(***************************************************************************)
EXTENDS Naturals, Sequences, FiniteSets

CONSTANTS Projects,
          FirstProject,   \* the project the process is started for
          RuntimeNames,   \* container names of agents, tools and the MCP runtime
          AgentsOf,       \* of each project, the agents' containers ...
          ToolsOf,        \* ... and those of its tools
          External,       \* the tools' containers whose tool is named external-...
          McpRuntime,     \* the container that runs external tools
          Calls,          \* the calls of the switcher there may be at once, ...
          Boot,           \* ... of which one is first the start of the process
          MaxFaults       \* bound on failing calls, containers that go down and restarts

ASSUME RuntimeConstants ==
  /\ FirstProject \in Projects /\ MaxFaults \in Nat /\ Boot \in Calls
  /\ McpRuntime \in RuntimeNames
  /\ \A p \in Projects : AgentsOf[p] \cup ToolsOf[p] \subseteq RuntimeNames

VARIABLES container,    \* of each name: the project it was created for, and its status
          project,      \* session_manager.project_root
          taskAgents,   \* agents of the active task
          call,         \* of each call: what it does, for which project, and the
                        \* containers it has yet to do
          faults,
          strays,       \* containers no switch stops, or has stopped for good (a history)
          overlap       \* two calls overlapped, and not all was stopped since (a history)

runtimeVars == <<container, project, taskAgents, call, faults, strays, overlap>>

With(status) == {n \in RuntimeNames : container[n].status = status}
Running == With("running")
Up == With("running") \cup With("restarting")
Active == {x \in Calls : call[x].phase # "idle"}

\* _split_tool_configs, and the one container for what it splits off.
FaithOwned(tools) == tools \ External
McpContainers(tools) == IF tools \cap External = {} THEN {} ELSE {McpRuntime}

\* What start_all starts at the start of the process, and load_project after a
\* switch, which takes an external tool for one of FAITH's.
BootContainers(p) == AgentsOf[p] \cup FaithOwned(ToolsOf[p]) \cup McpContainers(ToolsOf[p])
LoadContainers(p) == AgentsOf[p] \cup ToolsOf[p]

Doing(phase, goal, todo) == [phase |-> phase, goal |-> goal, todo |-> todo]
AtRest == Doing("idle", FirstProject, {})

RuntimeInit ==
  /\ container = [n \in RuntimeNames |-> [of |-> "none", status |-> "absent"]]
  /\ project = FirstProject /\ taskAgents = {} /\ faults = 0
  /\ call = [x \in Calls |-> IF x = Boot THEN Doing("boot", FirstProject, BootContainers(FirstProject))
                                         ELSE AtRest]
  /\ strays = {} /\ overlap = FALSE

\* The container n is now one of p, with that status.
Becomes(n, p, status) == container' = [container EXCEPT ![n] = [of |-> p, status |-> status]]
Proceeds(x, n) == call' = [call EXCEPT ![x].todo = @ \ {n}]

\* start_agent, start_tool, start_mcp_runtime, reconfigure_tool: create_or_update leaves
\* a running container as it is; another one is removed and created again.
StartOne(x, n) ==
  /\ call[x].phase \in {"boot", "load"} /\ n \in call[x].todo
  /\ IF container[n].status = "running" THEN UNCHANGED <<container, strays>>
     ELSE Becomes(n, call[x].goal, "running") /\ strays' = strays \ {n}
  /\ Proceeds(x, n)
  /\ UNCHANGED <<project, taskAgents, faults, overlap>>

\* start_all notes a container that does not start; load_project gives up.
StartFails(x, n) ==
  /\ call[x].phase \in {"boot", "load"} /\ n \in call[x].todo
  /\ faults < MaxFaults /\ faults' = faults + 1
  /\ IF call[x].phase = "boot" THEN Proceeds(x, n) ELSE call' = [call EXCEPT ![x] = AtRest]
  /\ UNCHANGED <<container, project, taskAgents, strays, overlap>>

\* The end of start_all, and of load_project.
Started(x) ==
  /\ call[x].phase \in {"boot", "load"} /\ call[x].todo = {}
  /\ call' = [call EXCEPT ![x] = AtRest]
  /\ UNCHANGED <<container, project, taskAgents, faults, strays, overlap>>

\* A task of the session takes agents, or is over.
TaskChanges(agents) ==
  /\ taskAgents' = agents
  /\ UNCHANGED <<container, project, call, faults, strays, overlap>>

\* switch_project, up to the first container it stops; for the active project it
\* returns at once.
SwitchProject(x, p) ==
  /\ call[x] = AtRest /\ p # project
  /\ call' = [call EXCEPT ![x] = Doing("agents", p, taskAgents)]
  /\ overlap' = (overlap \/ Active # {})
  /\ UNCHANGED <<container, project, taskAgents, faults, strays>>

\* stop: a container that is not there is an error, which ends the switch.
StopOne(x, n) ==
  /\ call[x].phase \in {"agents", "all"} /\ n \in call[x].todo
  /\ IF container[n].status = "absent"
     THEN call' = [call EXCEPT ![x] = AtRest] /\ UNCHANGED <<container, strays>>
     ELSE Becomes(n, container[n].of, "exited") /\ strays' = strays \ {n} /\ Proceeds(x, n)
  /\ UNCHANGED <<project, taskAgents, faults, overlap>>

\* A bug the runs must notice: only the agents of the active task are stopped.
StopAllSkipped(x) ==
  /\ call[x].phase = "agents" /\ call[x].todo = {}
  /\ taskAgents' = {}
  /\ call' = [call EXCEPT ![x] = Doing("all", @.goal, {})]
  /\ strays' = strays \cup With("restarting")
  /\ UNCHANGED <<container, project, faults, overlap>>

\* end_session, and the list of running containers stop_all works through; Docker
\* may yet bring up those that are restarting.
StopAll(x) ==
  /\ call[x].phase = "agents" /\ call[x].todo = {}
  /\ taskAgents' = {}
  /\ call' = [call EXCEPT ![x] = Doing("all", @.goal, Running)]
  /\ strays' = strays \cup With("restarting")
  /\ UNCHANGED <<container, project, faults, overlap>>

\* load_project, up to the first container it starts.
LoadProject(x) ==
  /\ call[x].phase = "all" /\ call[x].todo = {}
  /\ project' = call[x].goal
  /\ call' = [call EXCEPT ![x] = Doing("load", @.goal, LoadContainers(@.goal))]
  /\ overlap' = (overlap /\ ~(Active = {x} /\ Up = {}))
  /\ UNCHANGED <<container, taskAgents, faults, strays>>

\* A container ends by itself, or is stopped or removed by the user.
GoesDown(n, status) ==
  /\ container[n].status \in {"running", "restarting"}
  /\ faults < MaxFaults /\ faults' = faults + 1
  /\ IF status = "absent" THEN Becomes(n, "none", status) ELSE Becomes(n, container[n].of, status)
  /\ strays' = IF status = "restarting" THEN strays ELSE strays \ {n}
  /\ UNCHANGED <<project, taskAgents, call, overlap>>

\* Docker brings up one that ended by itself (restart_policy: unless-stopped).
ComesUp(n) ==
  /\ container[n].status = "restarting"
  /\ Becomes(n, container[n].of, "running")
  /\ UNCHANGED <<project, taskAgents, call, faults, strays, overlap>>

Stopping == \E x \in Calls : call[x].phase = "all"

\* restart_container, of any container there is, when the user asks.
RestartContainer(n) ==
  /\ container[n].status # "absent"
  /\ faults < MaxFaults /\ faults' = faults + 1
  /\ Becomes(n, container[n].of, "running")
  /\ strays' = IF container[n].of # project \/ Stopping THEN strays \cup {n} ELSE strays
  /\ UNCHANGED <<project, taskAgents, call, overlap>>

\* _ensure_runtime of the external servers, for a session of the project: once for each
\* manager, and again after its stop_all.
EnsureRuntime ==
  /\ container[McpRuntime].status # "running"
  /\ Becomes(McpRuntime, project, "running")
  /\ strays' = IF Stopping THEN strays \cup {McpRuntime} ELSE strays \ {McpRuntime}
  /\ UNCHANGED <<project, taskAgents, call, faults, overlap>>

RuntimeNext ==
  \/ EnsureRuntime
  \/ \E n \in RuntimeNames :
       \/ RestartContainer(n) \/ ComesUp(n)
       \/ \E status \in {"absent", "exited", "restarting"} : GoesDown(n, status)
       \/ \E x \in Calls : StartOne(x, n) \/ StartFails(x, n) \/ StopOne(x, n)
  \/ \E agents \in SUBSET AgentsOf[project] : TaskChanges(agents)
  \/ \E x \in Calls : \/ StopAll(x) \/ LoadProject(x) \/ Started(x)
                      \/ \E p \in Projects : SwitchProject(x, p)

(***************************************************************************)
(* No container runs that was created for another project than the active  *)
(* one, whatever failed on the way -- but for one that Docker was          *)
(* restarting when stop_all listed what runs, or that the user restarted   *)
(* by name when it was another project's, or started while containers were *)
(* being stopped; and but for switches that overlapped, until all is down  *)
(* when one of them loads.                                                 *)
(***************************************************************************)
RunningIsOfProject ==
  ~overlap => \A n \in Running \ strays : container[n].of = project
=============================================================================
