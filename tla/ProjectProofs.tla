----------------------------- MODULE ProjectProofs -----------------------------
(* Theorems about what runs in and around a project: its containers, its external *)
(* MCP servers, the migration of its configuration, its agents, the detector of   *)
(* their loops and the code they have run, for every value of the constants.      *)
EXTENDS ProjectRuntime, ExternalMCP, ConfigMigration, LoopDetector, AgentRuntime,
        PythonExec, SequencePartsProofs

-----------------------------------------------------------------------------
(* The containers of a project *)

RuntimeSpec == RuntimeInit /\ [][RuntimeNext]_runtimeVars

Statuses == {"absent", "running", "restarting", "exited"}
Containers == [of : Projects \cup {"none"}, status : Statuses]
PhasesOfCalls == {"boot", "idle", "agents", "all", "load"}
CallsUnderWay == [phase : PhasesOfCalls, goal : Projects, todo : SUBSET RuntimeNames]

RuntimeTypes ==
  /\ container \in [RuntimeNames -> Containers]
  /\ project \in Projects /\ taskAgents \subseteq RuntimeNames
  /\ call \in [Calls -> CallsUnderWay]

\* While one call is at work at most: what is up, or may come up, is the project's but
\* for the strays; the list stop_all works through holds all of it; and what is started
\* is started for the project.
OneAtWork ==
  /\ \A x, y \in Active : x = y
  /\ \A n \in Up \ strays : container[n].of = project
  /\ \A x \in Calls : /\ call[x].phase \in {"boot", "load"} => call[x].goal = project
                      /\ call[x].phase = "all" => Up \ strays \subseteq call[x].todo

RunningInv == RuntimeTypes /\ (~overlap => OneAtWork)

\* Nothing runs at the start, and only the start of the process is at work.
LEMMA RunningInit == RuntimeInit => RunningInv
<1> SUFFICES ASSUME RuntimeInit PROVE RunningInv
  OBVIOUS
<1>1. \A n \in RuntimeNames : container[n] = [of |-> "none", status |-> "absent"]
  BY DEF RuntimeInit
<1>2. Up = {}
  BY <1>1 DEF Up, With
<1>3. \A x \in Calls : /\ call[x].phase = IF x = Boot THEN "boot" ELSE "idle"
                       /\ call[x].goal = FirstProject
  BY DEF RuntimeInit, Doing, AtRest
<1>4. BootContainers(FirstProject) \subseteq RuntimeNames
  BY RuntimeConstants DEF BootContainers, FaithOwned, McpContainers
<1>5. RuntimeTypes
  <2>1. container \in [RuntimeNames -> Containers]
    BY DEF RuntimeInit, Containers, Statuses
  <2>2. call \in [Calls -> CallsUnderWay]
    BY <1>4, RuntimeConstants DEF RuntimeInit, Doing, AtRest, CallsUnderWay, PhasesOfCalls
  <2> QED BY <2>1, <2>2, RuntimeConstants DEF RuntimeInit, RuntimeTypes
<1>6. project = FirstProject
  BY DEF RuntimeInit
<1> QED BY <1>2, <1>3, <1>5, <1>6 DEF RunningInv, OneAtWork, Active

\* A container that changes is the only one.
LEMMA OneBecomes ==
  ASSUME RuntimeTypes, NEW n \in RuntimeNames, NEW p \in Projects \cup {"none"},
         NEW status \in Statuses, Becomes(n, p, status)
  PROVE  /\ container' \in [RuntimeNames -> Containers]
         /\ container'[n].of = p /\ container'[n].status = status
         /\ \A m \in RuntimeNames \ {n} : container'[m] = container[m]
<1>1. container' = [container EXCEPT ![n] = [of |-> p, status |-> status]]
  BY DEF Becomes
<1>2. [of |-> p, status |-> status] \in Containers
  BY DEF Containers
<1> QED BY <1>1, <1>2 DEF RuntimeTypes

\* A call that changes is the only one.
LEMMA OneCalls ==
  ASSUME RuntimeTypes, NEW x \in Calls, NEW c \in CallsUnderWay, call' = [call EXCEPT ![x] = c]
  PROVE  /\ call' \in [Calls -> CallsUnderWay] /\ call'[x] = c
         /\ \A y \in Calls \ {x} : call'[y] = call[y]
BY DEF RuntimeTypes

\* A call that has done one of its containers.
LEMMA OneProceeds ==
  ASSUME RuntimeTypes, NEW x \in Calls, NEW n, Proceeds(x, n)
  PROVE  /\ call' \in [Calls -> CallsUnderWay]
         /\ call'[x].phase = call[x].phase /\ call'[x].goal = call[x].goal
         /\ call'[x].todo = call[x].todo \ {n}
         /\ \A y \in Calls \ {x} : call'[y] = call[y]
<1>1. call[x] \in CallsUnderWay
  BY DEF RuntimeTypes
<1>2. /\ [call[x] EXCEPT !.todo = @ \ {n}] \in CallsUnderWay
      /\ [call[x] EXCEPT !.todo = @ \ {n}].phase = call[x].phase
      /\ [call[x] EXCEPT !.todo = @ \ {n}].goal = call[x].goal
      /\ [call[x] EXCEPT !.todo = @ \ {n}].todo = call[x].todo \ {n}
  BY <1>1 DEF CallsUnderWay
<1>3. call' = [call EXCEPT ![x] = [call[x] EXCEPT !.todo = @ \ {n}]]
  BY DEF Proceeds, RuntimeTypes
<1> QED BY <1>2, <1>3, OneCalls

\* A call that ends.
LEMMA OneRests ==
  ASSUME RuntimeTypes, NEW x \in Calls, call' = [call EXCEPT ![x] = AtRest]
  PROVE  /\ call' \in [Calls -> CallsUnderWay] /\ call'[x].phase = "idle"
         /\ \A y \in Calls \ {x} : call'[y] = call[y]
<1>1. AtRest \in CallsUnderWay /\ AtRest.phase = "idle"
  BY RuntimeConstants DEF AtRest, Doing, CallsUnderWay, PhasesOfCalls
<1> QED BY <1>1, OneCalls

\* A call that goes over to its next part.
LEMMA OneGoesOver ==
  ASSUME RuntimeTypes, NEW x \in Calls, NEW phase \in PhasesOfCalls, NEW p \in Projects,
         NEW todo \in SUBSET RuntimeNames, call' = [call EXCEPT ![x] = Doing(phase, p, todo)]
  PROVE  /\ call' \in [Calls -> CallsUnderWay]
         /\ call'[x].phase = phase /\ call'[x].goal = p /\ call'[x].todo = todo
         /\ \A y \in Calls \ {x} : call'[y] = call[y]
<1>1. /\ Doing(phase, p, todo) \in CallsUnderWay /\ Doing(phase, p, todo).phase = phase
      /\ Doing(phase, p, todo).goal = p /\ Doing(phase, p, todo).todo = todo
  BY DEF Doing, CallsUnderWay
<1> QED BY <1>1, OneCalls

\* A start of a container, that fails or not.
LEMMA StartKeeps ==
  ASSUME RunningInv, NEW x \in Calls, NEW n \in RuntimeNames, StartOne(x, n) \/ StartFails(x, n)
  PROVE  RunningInv'
<1> USE DEF RunningInv
<1>1. CASE StartOne(x, n)
  <2>1. /\ call[x].phase \in {"boot", "load"} /\ Proceeds(x, n)
        /\ UNCHANGED <<project, taskAgents, faults, overlap>>
    BY <1>1 DEF StartOne
  <2>2. /\ call' \in [Calls -> CallsUnderWay] /\ call'[x].goal = call[x].goal
        /\ call'[x].phase = call[x].phase /\ \A y \in Calls \ {x} : call'[y] = call[y]
    BY <2>1, OneProceeds
  <2>3. ~overlap => /\ call[x].goal = project
                    /\ \A y \in Calls : call[y].phase # "all" /\ call'[y].phase # "all"
    BY <2>1, <2>2 DEF OneAtWork, Active
  <2>4. CASE UNCHANGED <<container, strays>>
    BY <2>1, <2>2, <2>3, <2>4 DEF RuntimeTypes, OneAtWork, Active, Up, With
  <2>5. CASE Becomes(n, call[x].goal, "running") /\ strays' = strays \ {n}
    <3>1. call[x].goal \in Projects
      BY DEF RuntimeTypes, CallsUnderWay
    <3>2. /\ container' \in [RuntimeNames -> Containers] /\ container'[n].of = call[x].goal
          /\ \A m \in RuntimeNames \ {n} : container'[m] = container[m]
      BY <2>5, <3>1, OneBecomes DEF Statuses
    <3>3. ~overlap => \A m \in Up' \ strays' : container'[m].of = project
      BY <2>3, <2>5, <3>2 DEF OneAtWork, Up, With
    <3> QED BY <2>1, <2>2, <2>3, <3>2, <3>3 DEF RuntimeTypes, OneAtWork, Active
  <2> QED BY <1>1, <2>4, <2>5 DEF StartOne
<1>2. CASE StartFails(x, n)
  <2>1. /\ UNCHANGED <<container, project, taskAgents, strays, overlap>>
        /\ call[x].phase \in {"boot", "load"}
        /\ Proceeds(x, n) \/ call' = [call EXCEPT ![x] = AtRest]
    BY <1>2 DEF StartFails
  <2>2. CASE Proceeds(x, n)
    BY <2>1, <2>2, OneProceeds DEF RuntimeTypes, OneAtWork, Active, Up, With
  <2>3. CASE call' = [call EXCEPT ![x] = AtRest]
    BY <2>1, <2>3, OneRests DEF RuntimeTypes, OneAtWork, Active, Up, With
  <2> QED BY <2>1, <2>2, <2>3
<1> QED BY <1>1, <1>2

\* A stop of a container.
LEMMA StopKeeps ==
  ASSUME RunningInv, NEW x \in Calls, NEW n \in RuntimeNames, StopOne(x, n) PROVE RunningInv'
<1> USE DEF RunningInv
<1>1. UNCHANGED <<project, taskAgents, faults, overlap>>
  BY DEF StopOne
<1>2. CASE call' = [call EXCEPT ![x] = AtRest] /\ UNCHANGED <<container, strays>>
  BY <1>1, <1>2, OneRests DEF RuntimeTypes, OneAtWork, Active, Up, With
<1>3. CASE Becomes(n, container[n].of, "exited") /\ strays' = strays \ {n} /\ Proceeds(x, n)
  <2>1. /\ call' \in [Calls -> CallsUnderWay]
        /\ call'[x].phase = call[x].phase /\ call'[x].goal = call[x].goal
        /\ call'[x].todo = call[x].todo \ {n} /\ \A y \in Calls \ {x} : call'[y] = call[y]
    BY <1>3, OneProceeds
  <2>2. container[n].of \in Projects \cup {"none"}
    BY DEF RuntimeTypes, Containers
  <2>3. /\ container' \in [RuntimeNames -> Containers] /\ container'[n].status = "exited"
        /\ \A m \in RuntimeNames \ {n} : container'[m] = container[m]
    BY <1>3, <2>2, OneBecomes DEF Statuses
  <2>4. Up' \ strays' = (Up \ strays) \ {n}
    BY <1>3, <2>3 DEF Up, With
  <2>5. \A m \in Up' \ strays' : container'[m] = container[m]
    BY <2>3, <2>4 DEF Up, With
  <2>6. \A y \in Calls : call[y].phase = "all" /\ Up \ strays \subseteq call[y].todo
                         => Up' \ strays' \subseteq call'[y].todo
    BY <2>1, <2>4
  <2> QED BY <1>1, <2>1, <2>3, <2>4, <2>5, <2>6 DEF RuntimeTypes, OneAtWork, Active
<1> QED BY <1>2, <1>3 DEF StopOne

\* A container that changes while no call goes on: what was not up or stray is the
\* project's or a stray.
LEMMA WorldKeeps ==
  ASSUME RunningInv, NEW n \in RuntimeNames, NEW p \in Projects \cup {"none"},
         NEW status \in Statuses, Becomes(n, p, status),
         UNCHANGED <<project, taskAgents, call, overlap>>,
         strays \ {n} \subseteq strays',
         \/ status \in {"absent", "exited"} \/ n \in strays'
         \/ n \in Up /\ strays' = strays /\ p = container[n].of
         \/ ~Stopping /\ p = project
  PROVE  RunningInv'
<1> USE DEF RunningInv
<1>1. /\ container' \in [RuntimeNames -> Containers]
      /\ container'[n].of = p /\ container'[n].status = status
      /\ \A m \in RuntimeNames \ {n} : container'[m] = container[m]
  BY OneBecomes
<1>2. \A m \in Up' \ strays' : m # n => m \in Up \ strays /\ container'[m] = container[m]
  BY <1>1 DEF Up, With
<1>3. n \in Up' \ strays' => \/ n \in Up \ strays /\ container'[n].of = container[n].of
                             \/ ~Stopping /\ container'[n].of = project
  BY <1>1 DEF Up, With
<1>4. ASSUME OneAtWork PROVE OneAtWork'
  <2>1. \A m \in Up' \ strays' : container'[m].of = project
    BY <1>2, <1>3, <1>4 DEF OneAtWork
  <2>2. \A x \in Calls : call[x].phase = "all" => Up' \ strays' \subseteq call[x].todo
    BY <1>2, <1>3, <1>4 DEF OneAtWork, Stopping
  <2> QED BY <1>4, <2>1, <2>2 DEF OneAtWork, Active
<1> QED BY <1>1, <1>4 DEF RuntimeTypes

\* The parts of a switch that touch no container.
LEMMA SwitchKeeps ==
  ASSUME RunningInv, NEW x \in Calls,
         StopAll(x) \/ LoadProject(x) \/ Started(x) \/ \E p \in Projects : SwitchProject(x, p)
  PROVE  RunningInv'
<1> USE DEF RunningInv
<1>0. call[x].goal \in Projects /\ Running \in SUBSET RuntimeNames
  BY DEF RuntimeTypes, CallsUnderWay, Running, With
<1>1. CASE StopAll(x)
  <2>1. /\ call[x].phase = "agents" /\ taskAgents' = {} /\ strays' = strays \cup With("restarting")
        /\ call' = [call EXCEPT ![x] = Doing("all", call[x].goal, Running)]
        /\ UNCHANGED <<container, project, faults, overlap>>
    BY <1>1 DEF StopAll, RuntimeTypes
  <2>2. /\ call' \in [Calls -> CallsUnderWay] /\ call'[x].phase = "all" /\ call'[x].todo = Running
        /\ \A y \in Calls \ {x} : call'[y] = call[y]
    <3> DEFINE c == Doing("all", call[x].goal, Running)
    <3>1. c \in CallsUnderWay /\ c.phase = "all" /\ c.todo = Running
      BY <1>0 DEF Doing, CallsUnderWay, PhasesOfCalls
    <3>2. call' = [call EXCEPT ![x] = c]
      BY <2>1
    <3> HIDE DEF c
    <3> QED BY <3>1, <3>2, OneCalls
  <2>3. Up' \ strays' \subseteq Running /\ Up' \ strays' \subseteq Up \ strays
    BY <2>1 DEF Up, With, Running
  <2>4. ASSUME OneAtWork PROVE OneAtWork'
    BY <2>1, <2>2, <2>3, <2>4 DEF OneAtWork, Active
  <2> QED BY <2>1, <2>2, <2>4 DEF RuntimeTypes
<1>2. CASE LoadProject(x)
  <2>1. /\ call[x].phase = "all" /\ call[x].todo = {} /\ project' = call[x].goal
        /\ call' = [call EXCEPT ![x] = Doing("load", call[x].goal, LoadContainers(call[x].goal))]
        /\ overlap' = (overlap /\ ~(Active = {x} /\ Up = {}))
        /\ UNCHANGED <<container, taskAgents, faults, strays>>
    BY <1>2 DEF LoadProject, RuntimeTypes
  <2>2. LoadContainers(call[x].goal) \in SUBSET RuntimeNames
    BY <1>0, RuntimeConstants DEF LoadContainers
  <2>3. /\ call' \in [Calls -> CallsUnderWay] /\ call'[x].phase = "load" /\ call'[x].goal = call[x].goal
        /\ \A y \in Calls \ {x} : call'[y] = call[y]
    <3> DEFINE c == Doing("load", call[x].goal, LoadContainers(call[x].goal))
    <3>1. c \in CallsUnderWay /\ c.phase = "load" /\ c.goal = call[x].goal
      BY <1>0, <2>2 DEF Doing, CallsUnderWay, PhasesOfCalls
    <3>2. call' = [call EXCEPT ![x] = c]
      BY <2>1
    <3> HIDE DEF c
    <3> QED BY <3>1, <3>2, OneCalls
  <2>4. ASSUME ~overlap' PROVE Up \subseteq strays /\ \A y \in Active : y = x
    BY <2>1, <2>4 DEF OneAtWork, Active
  <2>5. ASSUME ~overlap' PROVE OneAtWork'
    <3>1. Up' = Up /\ strays' = strays
      BY <2>1 DEF Up, With
    <3>2. \A y \in Calls \ {x} : call'[y].phase = "idle"
      BY <2>3, <2>4, <2>5 DEF Active
    <3> QED BY <2>1, <2>3, <2>4, <2>5, <3>1, <3>2 DEF OneAtWork, Active
  <2> QED BY <1>0, <2>1, <2>3, <2>5 DEF RuntimeTypes
<1>3. CASE Started(x)
  <2>1. /\ call' = [call EXCEPT ![x] = AtRest]
        /\ UNCHANGED <<container, project, taskAgents, faults, strays, overlap>>
    BY <1>3 DEF Started
  <2> QED BY <2>1, OneRests DEF RuntimeTypes, OneAtWork, Active, Up, With
<1>4. ASSUME NEW p \in Projects, SwitchProject(x, p) PROVE RunningInv'
  <2>1. /\ call' = [call EXCEPT ![x] = Doing("agents", p, taskAgents)]
        /\ overlap' = (overlap \/ Active # {})
        /\ UNCHANGED <<container, project, taskAgents, faults, strays>>
    BY <1>4 DEF SwitchProject
  <2>2. /\ call' \in [Calls -> CallsUnderWay] /\ call'[x].phase = "agents"
        /\ \A y \in Calls \ {x} : call'[y] = call[y]
    BY <2>1, OneGoesOver DEF PhasesOfCalls, RuntimeTypes
  <2>3. ASSUME ~overlap' PROVE OneAtWork'
    <3>1. ~overlap /\ \A y \in Calls : call[y].phase = "idle"
      BY <2>1, <2>3 DEF Active
    <3>2. Up' = Up /\ strays' = strays
      BY <2>1 DEF Up, With
    <3> QED BY <2>1, <2>2, <3>1, <3>2 DEF OneAtWork, Active
  <2> QED BY <2>1, <2>2, <2>3 DEF RuntimeTypes
<1> QED BY <1>1, <1>2, <1>3, <1>4

\* Every step of a start, a switch or the world preserves it.
LEMMA RunningStep == RunningInv /\ [RuntimeNext]_runtimeVars => RunningInv'
<1> SUFFICES ASSUME RunningInv, [RuntimeNext]_runtimeVars PROVE RunningInv'
  OBVIOUS
<1>0. /\ project \in Projects /\ McpRuntime \in RuntimeNames
      /\ \A n \in RuntimeNames : container[n].of \in Projects \cup {"none"}
      /\ \A p \in Projects : AgentsOf[p] \subseteq RuntimeNames
  BY RuntimeConstants DEF RunningInv, RuntimeTypes, Containers
<1>1. CASE EnsureRuntime
  <2>1. /\ Becomes(McpRuntime, project, "running")
        /\ strays' = IF Stopping THEN strays \cup {McpRuntime} ELSE strays \ {McpRuntime}
        /\ UNCHANGED <<project, taskAgents, call, overlap>>
    BY <1>1 DEF EnsureRuntime
  <2> QED BY <1>0, <2>1, WorldKeeps DEF Statuses
<1>2. ASSUME NEW n \in RuntimeNames, RestartContainer(n) PROVE RunningInv'
  <2>1. /\ Becomes(n, container[n].of, "running")
        /\ strays' = IF container[n].of # project \/ Stopping THEN strays \cup {n} ELSE strays
        /\ UNCHANGED <<project, taskAgents, call, overlap>>
    BY <1>2 DEF RestartContainer
  <2> QED BY <1>0, <2>1, WorldKeeps DEF Statuses
<1>3. ASSUME NEW n \in RuntimeNames, ComesUp(n) PROVE RunningInv'
  <2>1. /\ Becomes(n, container[n].of, "running") /\ n \in Up /\ strays' = strays
        /\ UNCHANGED <<project, taskAgents, call, overlap>>
    BY <1>3 DEF ComesUp, Up, With
  <2> QED BY <1>0, <2>1, WorldKeeps DEF Statuses
<1>4. ASSUME NEW n \in RuntimeNames, NEW status \in {"absent", "exited", "restarting"}, GoesDown(n, status)
      PROVE  RunningInv'
  <2>1. /\ n \in Up /\ UNCHANGED <<project, taskAgents, call, overlap>>
        /\ strays' = IF status = "restarting" THEN strays ELSE strays \ {n}
    BY <1>4 DEF GoesDown, Up, With
  <2>2. CASE status = "absent"
    <3>1. Becomes(n, "none", status)
      BY <1>4, <2>2 DEF GoesDown
    <3> QED BY <2>1, <2>2, <3>1, WorldKeeps DEF Statuses
  <2>3. CASE status # "absent"
    <3>1. Becomes(n, container[n].of, status)
      BY <1>4, <2>3 DEF GoesDown
    <3> QED BY <1>0, <2>1, <2>3, <3>1, WorldKeeps DEF Statuses
  <2> QED BY <2>2, <2>3
<1>5. ASSUME NEW agents \in SUBSET AgentsOf[project], TaskChanges(agents) PROVE RunningInv'
  BY <1>0, <1>5 DEF TaskChanges, RunningInv, RuntimeTypes, OneAtWork, Active, Up, With
<1>6. CASE UNCHANGED runtimeVars
  BY <1>6 DEF runtimeVars, RunningInv, RuntimeTypes, OneAtWork, Active, Up, With
<1> QED BY <1>1, <1>2, <1>3, <1>4, <1>5, <1>6, StartKeeps, StopKeeps, SwitchKeeps DEF RuntimeNext

\* No container runs that was created for another project, whatever failed on the way,
\* but for those a switch could not stop or the user restarted, unless switches
\* overlapped.
THEOREM OnlyTheProjectRuns == RuntimeSpec => []RunningIsOfProject
<1>1. RunningInv => RunningIsOfProject
  BY DEF RunningInv, OneAtWork, RunningIsOfProject, Running, Up
<1> QED BY <1>1, RunningInit, RunningStep, PTL DEF RuntimeSpec

-----------------------------------------------------------------------------
(* The external servers *)

McpSpec == McpInit /\ [][McpNext]_mcpVars

Objects == [enabled : BOOLEAN, process : 0..launched, session : McpSessions \cup {"none"}]

\* The table refers to loads that were done, the objects and the list of what is
\* alive to processes that were launched.
McpTypes ==
  /\ generation \in 0..MaxReloads /\ launched \in Nat
  /\ table \in [Servers -> 0..generation]
  /\ object \in [Servers -> [Generations -> Objects]]
  /\ alive \subseteq [id : 1..launched, server : Servers]
  /\ starting \subseteq [server : Servers, at : Generations, session : McpSessions]
  /\ stopping \subseteq [server : Servers, at : Generations, process : 0..launched]

\* A start under way, unless it is tangled, is the only one of its server, will
\* hang its process on the object in the table, and that object has none.
StartsAreSound ==
  \A x \in starting : x.server \notin tangled =>
    /\ x.at = table[x.server] /\ ~Runs(Entry(x.server).process)
    /\ \A y \in starting : y.server = x.server => y = x

McpInv == McpTypes /\ StartsAreSound /\ RunningIsListed

\* Without a server there is nothing to lose.
LEMMA McpInitially == McpInit => McpInv
<1> SUFFICES ASSUME McpInit PROVE McpInv
  OBVIOUS
<1>1. NewObject(FALSE) \in Objects
  BY DEF McpInit, NewObject, Objects
<1>2. /\ generation \in 0..MaxReloads /\ launched \in Nat
      /\ table \in [Servers -> 0..generation]
      /\ alive = {} /\ starting = {} /\ stopping = {}
  BY McpConstants DEF McpInit
<1>3. object \in [Servers -> [Generations -> Objects]]
  BY <1>1 DEF McpInit
<1> QED BY <1>2, <1>3 DEF McpInv, McpTypes, StartsAreSound, RunningIsListed

\* An object of the table is one of those there are.
LEMMA EntryTyped ==
  ASSUME McpTypes, NEW n \in Listed
  PROVE  /\ n \in Servers /\ table[n] \in Generations
         /\ Entry(n) = object[n][table[n]] /\ Entry(n) \in Objects
<1>1. n \in Servers /\ table[n] \in 0..generation /\ table[n] # 0
  BY DEF McpTypes, Listed
<1>2. table[n] \in Generations
  BY <1>1, McpConstants DEF McpTypes, Generations
<1> QED BY <1>1, <1>2 DEF McpTypes, Entry

\* Setting two fields of an object.
LEMMA ObjectUpdate ==
  ASSUME NEW P, NEW Q, NEW T, NEW o \in [enabled : BOOLEAN, process : P, session : T],
         NEW p \in Q, NEW s \in T
  PROVE  LET new == [o EXCEPT !.process = p, !.session = s]
         IN  new \in [enabled : BOOLEAN, process : Q, session : T] /\ new.process = p
OBVIOUS

\* A new load of the configuration.
LEMMA ReloadSafe == ASSUME McpInv, ReloadConfigs PROVE McpInv'
<1> USE DEF McpInv, McpTypes
<1>1. /\ generation' = generation + 1 /\ generation + 1 \in Generations
      /\ UNCHANGED <<alive, launched, starting, stopping>>
  BY McpConstants DEF ReloadConfigs, Generations
<1>2. \A n \in Servers : table'[n] = IF n \in Present THEN generation + 1 ELSE 0
  BY DEF ReloadConfigs
<1>3. \A n \in Listed : Entry(n) \in Objects
  BY EntryTyped
<1>4. \A n \in Servers : [object[n] EXCEPT ![generation + 1] =
                            IF n \in Listed
                            THEN [Entry(n) EXCEPT !.enabled = config[n] = "enabled"]
                            ELSE NewObject(config[n] = "enabled")] \in [Generations -> Objects]
  <2> SUFFICES ASSUME NEW n \in Servers
               PROVE  [object[n] EXCEPT ![generation + 1] =
                         IF n \in Listed
                         THEN [Entry(n) EXCEPT !.enabled = config[n] = "enabled"]
                         ELSE NewObject(config[n] = "enabled")] \in [Generations -> Objects]
    OBVIOUS
  <2>1. object[n] \in [Generations -> Objects]
    OBVIOUS
  <2>2. (config[n] = "enabled") \in BOOLEAN
    OBVIOUS
  <2>3. NewObject(config[n] = "enabled") \in Objects
    BY <2>2 DEF NewObject, Objects
  <2>4. n \in Listed => [Entry(n) EXCEPT !.enabled = config[n] = "enabled"] \in Objects
    BY <1>3, <2>2 DEF Objects
  <2> QED BY <2>1, <2>3, <2>4
<1>5. McpTypes'
  <2>1. object' \in [Servers -> [Generations -> Objects]]
    BY <1>4 DEF ReloadConfigs
  <2>2. table' \in [Servers -> 0..(generation + 1)]
    BY DEF ReloadConfigs
  <2> QED BY <1>1, <2>1, <2>2 DEF Objects, Generations
<1>6. /\ \A x \in starting : x.server \in tangled'
      /\ tangled \subseteq tangled'
  BY DEF ReloadConfigs
<1>7. StartsAreSound'
  BY <1>1, <1>6 DEF StartsAreSound
<1>8. RunningIsListed'
  <2> SUFFICES ASSUME NEW a \in alive, a.server \notin tangled'
               PROVE  (a.server \in Listed /\ Entry(a.server).process = a.id)'
    BY <1>1 DEF RunningIsListed
  <2> DEFINE n == a.server
  <2>1. n \in Servers /\ n \in Listed /\ Entry(n).process = a.id
    BY <1>6 DEF RunningIsListed
  <2>2. Runs(Entry(n).process)
    BY <2>1 DEF Runs
  <2>3. n \in Present
    BY <2>1, <2>2 DEF ReloadConfigs
  <2>4. table'[n] = generation + 1
    BY <1>2, <2>1, <2>3
  <2>5. object'[n][generation + 1] = [Entry(n) EXCEPT !.enabled = config[n] = "enabled"]
    BY <1>1, <2>1 DEF ReloadConfigs
  <2>6. object'[n][generation + 1].process = Entry(n).process
    BY <1>3, <2>1, <2>5 DEF Objects
  <2> QED BY <1>1, <2>1, <2>4, <2>6 DEF Listed, Entry
<1> QED BY <1>5, <1>7, <1>8

\* A start begins.
LEMMA StartSafe ==
  ASSUME McpInv, NEW n \in Servers, NEW s \in McpSessions, StartServer(n, s)
  PROVE  McpInv'
<1> USE DEF McpInv, McpTypes
<1> DEFINE x == [server |-> n, at |-> table[n], session |-> s]
<1>1. /\ starting' = starting \cup {x} /\ table[n] \in Generations
      /\ UNCHANGED <<generation, table, object, alive, launched, stopping>>
      /\ ~Runs(Entry(n).process)
  BY EntryTyped DEF StartServer
<1>2. tangled \subseteq tangled' /\ (n \notin tangled' => \A y \in starting : y.server # n)
  BY DEF StartServer
<1>3. McpTypes'
  BY <1>1 DEF Objects, Generations
<1>4. StartsAreSound'
  <2> SUFFICES ASSUME NEW y \in starting', y.server \notin tangled'
               PROVE  /\ y.at = table[y.server] /\ ~Runs(Entry(y.server).process)
                      /\ \A z \in starting' : z.server = y.server => z = y
    BY <1>1 DEF StartsAreSound, Runs, Entry
  <2>1. CASE y.server = n
    BY <1>1, <1>2, <2>1
  <2>2. CASE y.server # n
    BY <1>1, <1>2, <2>2 DEF StartsAreSound
  <2> QED BY <2>1, <2>2
<1>5. RunningIsListed'
  BY <1>1, <1>2 DEF RunningIsListed, Listed, Entry
<1> QED BY <1>3, <1>4, <1>5

\* A process is launched and hung on the object its start began with.
LEMMA LaunchSafe == ASSUME McpInv, NEW x \in starting, Launch(x) PROVE McpInv'
<1> USE DEF McpInv, McpTypes
<1> DEFINE n == x.server  p == launched + 1
<1>1. /\ n \in Servers /\ x.at \in Generations /\ x.session \in McpSessions
      /\ launched' = p /\ alive' = alive \cup {[id |-> p, server |-> n]}
      /\ starting' = starting \ {x}
      /\ UNCHANGED <<generation, table, stopping, tangled>>
  BY DEF Launch
<1>2. object[n][x.at] \in Objects
  BY <1>1
<1>3. object' = [object EXCEPT ![n][x.at] =
                   [object[n][x.at] EXCEPT !.process = p, !.session = x.session]]
  BY <1>1, <1>2 DEF Launch, Objects
<1>4. /\ object' \in [Servers -> [Generations -> Objects']]
      /\ object'[n][x.at].process = p
      /\ \A m \in Servers \ {n} : object'[m] = object[m]
  <2>1. /\ [object[n][x.at] EXCEPT !.process = p, !.session = x.session] \in Objects'
        /\ [object[n][x.at] EXCEPT !.process = p, !.session = x.session].process = p
    <3>1. /\ object[n][x.at] \in [enabled : BOOLEAN, process : 0..launched, session : McpSessions \cup {"none"}]
          /\ p \in 0..p /\ x.session \in McpSessions \cup {"none"}
      BY <1>1, <1>2 DEF Objects
    <3> QED BY <1>1, <3>1, ObjectUpdate DEF Objects
  <2>2. \A o \in Objects : o \in Objects'
    BY <1>1 DEF Objects
  <2> QED BY <1>1, <1>2, <1>3, <2>1, <2>2
<1>5. McpTypes'
  BY <1>1, <1>4 DEF Generations
<1>6. \A q \in 0..launched : Runs(q)' <=> Runs(q)
  BY <1>1 DEF Runs
<1>7. \A m \in Servers \ {n} : Entry(m)' = Entry(m)
  BY <1>1, <1>4 DEF Entry
<1>8. StartsAreSound'
  <2> SUFFICES ASSUME NEW y \in starting, y # x, y.server \notin tangled
               PROVE  /\ y.at = table[y.server] /\ ~Runs(Entry(y.server).process)'
                      /\ \A z \in starting : z.server = y.server => z = y
    BY <1>1 DEF StartsAreSound
  <2>1. /\ y.server \in Servers \ {n} /\ y.at = table[y.server] /\ ~Runs(Entry(y.server).process)
        /\ \A z \in starting : z.server = y.server => z = y
    BY DEF StartsAreSound
  <2>2. Entry(y.server).process \in 0..launched
    BY <2>1 DEF Entry, Objects
  <2> QED BY <1>6, <1>7, <2>1, <2>2
<1>9. RunningIsListed'
  <2> SUFFICES ASSUME NEW a \in alive', a.server \notin tangled
               PROVE  (a.server \in Listed /\ Entry(a.server).process = a.id)'
    BY <1>1 DEF RunningIsListed
  <2>1. CASE a.server # n
    BY <1>1, <1>7, <2>1 DEF RunningIsListed, Listed
  <2>2. CASE a.server = n
    <3>1. x.at = table[n] /\ ~Runs(Entry(n).process)
      BY <2>2 DEF StartsAreSound
    <3>2. a \notin alive
      BY <2>2, <3>1 DEF RunningIsListed, Runs
    <3>3. a.id = p
      BY <1>1, <3>2
    <3> QED BY <1>1, <1>4, <2>2, <3>1, <3>3 DEF Listed, Entry, Generations
  <2> QED BY <2>1, <2>2
<1> QED BY <1>5, <1>8, <1>9

\* A stop returns, and its object forgets the process it has.
LEMMA ForgetSafe == ASSUME McpInv, NEW x \in stopping, StopReturns(x) PROVE McpInv'
<1> USE DEF McpInv, McpTypes
<1> DEFINE n == x.server
<1>1. /\ n \in Servers /\ x.at \in Generations
      /\ stopping' = stopping \ {x} /\ tangled \subseteq tangled'
      /\ UNCHANGED <<generation, table, alive, launched, starting>>
  BY DEF StopReturns
<1>2. object[n][x.at] \in Objects
  BY <1>1
<1>3. object' = [object EXCEPT ![n][x.at] =
                   [object[n][x.at] EXCEPT !.process = 0, !.session = "none"]]
  BY <1>1, <1>2 DEF StopReturns, Objects
<1>4. /\ [object[n][x.at] EXCEPT !.process = 0, !.session = "none"] \in Objects
      /\ [object[n][x.at] EXCEPT !.process = 0, !.session = "none"].process = 0
  <2>1. 0 \in 0..launched /\ "none" \in McpSessions \cup {"none"}
    OBVIOUS
  <2> QED BY <1>2, <2>1, ObjectUpdate DEF Objects
<1>5. /\ object' \in [Servers -> [Generations -> Objects]]
      /\ object'[n][x.at].process = 0
      /\ \A m \in Servers : \A g \in Generations : (m # n \/ g # x.at) => object'[m][g] = object[m][g]
  BY <1>1, <1>3, <1>4
<1>6. McpTypes'
  BY <1>1, <1>5 DEF Objects, Generations
<1>7. ~Runs(0)
  BY DEF Runs
<1>8. \A m \in Listed : \/ Entry(m)' = Entry(m)
                        \/ m = n /\ table[m] = x.at /\ Entry(m)'.process = 0
  BY <1>1, <1>5, EntryTyped DEF Entry, Listed
<1>9. StartsAreSound'
  <2> SUFFICES ASSUME NEW y \in starting, y.server \notin tangled
               PROVE  /\ y.at = table[y.server] /\ ~Runs(Entry(y.server).process)'
                      /\ \A z \in starting : z.server = y.server => z = y
    BY <1>1 DEF StartsAreSound
  <2>1. /\ y.server \in Listed /\ y.at = table[y.server] /\ ~Runs(Entry(y.server).process)
        /\ \A z \in starting : z.server = y.server => z = y
    BY DEF StartsAreSound, Listed, Generations
  <2> QED BY <1>1, <1>7, <1>8, <2>1 DEF Runs
<1>10. RunningIsListed'
  <2> SUFFICES ASSUME NEW a \in alive, a.server \notin tangled'
               PROVE  (a.server \in Listed /\ Entry(a.server).process = a.id)'
    BY <1>1 DEF RunningIsListed
  <2>1. a.server \in Listed /\ Entry(a.server).process = a.id
    BY <1>1 DEF RunningIsListed
  <2>2. ~(a.server = n /\ table[n] = x.at)
    BY <2>1 DEF StopReturns, Runs, Entry
  <2> QED BY <1>1, <1>8, <2>1, <2>2 DEF Listed
<1> QED BY <1>6, <1>9, <1>10

\* Every step preserves the invariant.
LEMMA McpStep == McpInv /\ [McpNext]_mcpVars => McpInv'
<1> SUFFICES ASSUME McpInv, [McpNext]_mcpVars PROVE McpInv'
  OBVIOUS
<1>1. ASSUME NEW n \in Servers, NEW c, EditConfig(n, c) PROVE McpInv'
  BY <1>1 DEF EditConfig, McpInv, McpTypes, Objects, Generations, StartsAreSound, RunningIsListed,
              Listed, Entry, Runs
<1>2. ASSUME NEW ns \in SUBSET Listed,
             stopping' = stopping \cup {Stop(n) : n \in ns},
             UNCHANGED <<generation, table, object, alive, launched, starting, tangled>>
      PROVE  McpInv'
  <2>1. \A n \in ns : Stop(n) \in [server : Servers, at : Generations, process : 0..launched]
    BY <1>2, EntryTyped DEF McpInv, Stop, Objects
  <2>2. McpTypes'
    BY <1>2, <2>1 DEF McpInv, McpTypes, Objects, Generations
  <2>3. StartsAreSound' /\ RunningIsListed'
    BY <1>2 DEF McpInv, StartsAreSound, RunningIsListed, Listed, Entry, Runs
  <2> QED BY <2>2, <2>3 DEF McpInv
<1>3. ASSUME NEW ns \in SUBSET Listed, StopServers(ns) PROVE McpInv'
  BY <1>2, <1>3 DEF StopServers
<1>4. ASSUME NEW s \in McpSessions, StopSessionServers(s) PROVE McpInv'
  BY <1>3, <1>4 DEF StopSessionServers
<1>5. CASE StopAllServers
  BY <1>2, <1>5 DEF StopAllServers
<1>6. ASSUME NEW x \in starting, StartServerFails(x) PROVE McpInv'
  BY <1>6 DEF StartServerFails, McpInv, McpTypes, Objects, Generations, StartsAreSound,
              RunningIsListed, Listed, Entry, Runs
<1>7. ASSUME NEW a \in alive, ProcessEnds(a) PROVE McpInv'
  BY <1>7 DEF ProcessEnds, McpInv, McpTypes, Objects, Generations, StartsAreSound,
              RunningIsListed, Listed, Entry, Runs
<1>8. CASE UNCHANGED mcpVars
  BY <1>8 DEF mcpVars, McpInv, McpTypes, Objects, Generations, StartsAreSound, RunningIsListed,
              Listed, Entry, Runs
<1>9. ASSUME NEW n \in Servers, n \in Listed, StopServers({n}) PROVE McpInv'
  BY <1>3, <1>9
<1> QED
  BY <1>1, <1>4, <1>5, <1>6, <1>7, <1>8, <1>9, ReloadSafe, StartSafe, LaunchSafe, ForgetSafe
  DEF McpNext

\* A running process is the one of its server's object in the table, so that a
\* stop can reach it, unless the server's starts, stops or reloads overlapped.
THEOREM ProcessesAreReached == McpSpec => []RunningIsListed
<1>1. McpInv => RunningIsListed
  BY DEF McpInv
<1> QED BY <1>1, McpInitially, McpStep, PTL DEF McpSpec

-----------------------------------------------------------------------------
(* The migration of the configuration *)

MigrationSpec == MigrationInit /\ [][MigrationNext]_migrationVars

Bodies == {Settings, Nothing, Torn}

\* The files on disk are numbered up to the count of the backups, so that a
\* backup gets a name of its own; the file itself is always there.
Numbered ==
  /\ backups \in Nat
  /\ DOMAIN onDisk \subseteq ConfigNames \X (0..backups)
  /\ ConfigNames \X {0} \subseteq DOMAIN onDisk
  /\ onDisk = [f \in DOMAIN onDisk |-> onDisk[f]]

MigrationInv == Numbered /\ SettingsAreKept

\* At the start each file holds its settings.
LEMMA MigrationInitially == MigrationInit => MigrationInv
<1> SUFFICES ASSUME MigrationInit PROVE MigrationInv
  OBVIOUS
<1>1. /\ DOMAIN onDisk = ConfigNames \X {0} /\ backups = 0
      /\ onDisk = [f \in DOMAIN onDisk |-> onDisk[f]]
      /\ \A f \in ConfigNames \X {0} : onDisk[f].body = Settings
  BY DEF MigrationInit
<1>2. Numbered
  BY <1>1 DEF Numbered
<1>3. SettingsAreKept
  <2> SUFFICES ASSUME NEW n \in ConfigNames
               PROVE  \E f \in DOMAIN onDisk : f[1] = n /\ onDisk[f].body = Settings
    BY DEF SettingsAreKept
  <2>1. <<n, 0>> \in DOMAIN onDisk /\ <<n, 0>>[1] = n
    BY <1>1
  <2> QED BY <1>1, <2>1
<1> QED BY <1>2, <1>3 DEF MigrationInv

\* A rewriting leaves what the file held in the backup, which is a new file.
LEMMA BackupKeeps ==
  ASSUME MigrationInv, NEW f \in DOMAIN onDisk, NEW new,
         onDisk' = WithBackup(f, new), backups' = backups + 1
  PROVE  MigrationInv'
<1> USE DEF MigrationInv, Numbered
<1> DEFINE b == Backup(f)
<1>1. PICK n \in ConfigNames, i \in 0..backups : f = <<n, i>>
  OBVIOUS
<1>2. b = <<n, backups + 1>> /\ b \notin DOMAIN onDisk
  BY <1>1 DEF Backup
<1>3. DOMAIN onDisk' = DOMAIN onDisk \cup {b}
  BY DEF WithBackup
<1>4. onDisk'[b] = onDisk[f]
  BY <1>3 DEF WithBackup
<1>5. \A g \in DOMAIN onDisk \ {f} : onDisk'[g] = onDisk[g]
  BY <1>2, <1>3 DEF WithBackup
<1>6. Numbered'
  <2>1. DOMAIN onDisk' \subseteq ConfigNames \X (0..(backups + 1))
    BY <1>1, <1>2, <1>3
  <2> QED BY <1>3, <2>1 DEF WithBackup
<1>7. SettingsAreKept'
  <2> SUFFICES ASSUME NEW m \in ConfigNames
               PROVE  \E g \in DOMAIN onDisk' : g[1] = m /\ onDisk'[g].body = Settings
    BY DEF SettingsAreKept
  <2>1. PICK g \in DOMAIN onDisk : g[1] = m /\ onDisk[g].body = Settings
    BY DEF SettingsAreKept
  <2>2. CASE g = f
    BY <1>1, <1>2, <1>3, <1>4, <2>1, <2>2
  <2>3. CASE g # f
    BY <1>3, <1>5, <2>1, <2>3
  <2> QED BY <2>2, <2>3
<1> QED BY <1>6, <1>7

\* Both steps, a migration and the user's mending of a file, preserve it.
LEMMA MigrationStep == MigrationInv /\ [MigrationNext]_migrationVars => MigrationInv'
<1> SUFFICES ASSUME MigrationInv, [MigrationNext]_migrationVars PROVE MigrationInv'
  OBVIOUS
<1>1. ASSUME NEW f \in Pending, MigrateFile(f) PROVE MigrationInv'
  <2>1. f \in DOMAIN onDisk /\ backups' = backups + 1
    BY <1>1 DEF Pending, ConfigFilesFound, MigrateFile
  <2>2. \E new : onDisk' = WithBackup(f, new)
    BY <1>1 DEF MigrateFile
  <2> QED BY <2>1, <2>2, BackupKeeps
<1>2. ASSUME NEW n \in ConfigNames, Mend(n) PROVE MigrationInv'
  <2>1. /\ onDisk' = [onDisk EXCEPT ![<<n, 0>>] = [version |-> Current, body |-> Settings]]
        /\ backups' = backups
    BY <1>2 DEF Mend, Written
  <2>2. <<n, 0>> \in DOMAIN onDisk
    BY DEF MigrationInv, Numbered
  <2>3. DOMAIN onDisk' = DOMAIN onDisk /\ onDisk'[<<n, 0>>].body = Settings
        /\ \A g \in DOMAIN onDisk : g # <<n, 0>> => onDisk'[g] = onDisk[g]
    BY <2>1, <2>2
  <2>4. Numbered'
    BY <2>1, <2>3 DEF MigrationInv, Numbered
  <2>5. SettingsAreKept'
    BY <2>2, <2>3 DEF MigrationInv, SettingsAreKept
  <2> QED BY <2>4, <2>5 DEF MigrationInv
<1>3. CASE UNCHANGED migrationVars
  BY <1>3 DEF migrationVars, MigrationInv, Numbered, SettingsAreKept
<1> QED BY <1>1, <1>2, <1>3 DEF MigrationNext

\* Whatever stops and fails, however often a file and its backups are migrated,
\* the settings are in the file or in one of its backups.
THEOREM SettingsSurvive == MigrationSpec => []SettingsAreKept
<1>1. MigrationInv => SettingsAreKept
  BY DEF MigrationInv
<1> QED BY <1>1, MigrationInitially, MigrationStep, PTL DEF MigrationSpec

-----------------------------------------------------------------------------
(* The detector of loops *)

LoopSpec == LoopInit /\ [][LoopNext]_loopVars

Messages == [agent : Speakers, says : Sayings, state : WorkStates]

\* u is an end of w.
EndOf(u, w) ==
  /\ u \in Seq(Messages) /\ w \in Seq(Messages) /\ Len(u) <= Len(w)
  /\ \A i \in 1..Len(u) : u[i] = w[i + (Len(w) - Len(u))]

\* A window holds the channel's messages, the verdict on a channel that is not
\* halted is "none" by the configuration it was last checked under: a window that
\* is only cut since then has no more in it to find.
LoopInv ==
  /\ loopConfig \in LoopConfigs
  /\ \A c \in DOMAIN tracker :
       /\ tracker[c] \in Seq(Messages)
       /\ c \in DOMAIN judgedBy /\ judgedBy[c] \in LoopConfigs
  /\ \A c \in DOMAIN tracker \ halted : Verdict(tracker[c], judgedBy[c]) = "none"

\* The newest messages of a window are an end of it.
LEMMA NewestIsEnd ==
  ASSUME NEW w \in Seq(Messages), NEW n \in Nat
  PROVE  EndOf(Newest(w, n), w)
<1>1. Len(w) \in Nat
  BY LenProperties
<1> QED BY <1>1, NewestProperties DEF EndOf

\* Where an end of a window stands in it.
LEMMA EndStands ==
  ASSUME NEW u, NEW w, EndOf(u, w)
  PROVE  /\ Len(u) \in Nat /\ Len(w) \in Nat /\ DOMAIN u = 1..Len(u) /\ DOMAIN w = 1..Len(w)
         /\ Len(w) - Len(u) \in Nat
         /\ \A i \in 1..Len(u) :
              /\ i + (Len(w) - Len(u)) \in 1..Len(w)
              /\ u[i] = w[i + (Len(w) - Len(u))]
<1>1. u \in Seq(Messages) /\ w \in Seq(Messages) /\ Len(u) <= Len(w)
  BY DEF EndOf
<1>2. Len(u) \in Nat /\ Len(w) \in Nat /\ DOMAIN u = 1..Len(u) /\ DOMAIN w = 1..Len(w)
  BY <1>1, LenProperties
<1>3. \A i \in 1..Len(u) : i + (Len(w) - Len(u)) \in 1..Len(w)
  BY <1>1, <1>2
<1>4. \A i \in 1..Len(u) : u[i] = w[i + (Len(w) - Len(u))]
  BY DEF EndOf
<1> QED BY <1>1, <1>2, <1>3, <1>4

\* What a check finds in the end of a window it finds in the window.
LEMMA RepeatsLasts ==
  ASSUME NEW u, NEW w, EndOf(u, w), NEW c, c.threshold \in Nat, Repeats(u, c)
  PROVE  Repeats(w, c)
<1> DEFINE k == Len(w) - Len(u)
<1>0. /\ Len(u) \in Nat /\ Len(w) \in Nat /\ DOMAIN u = 1..Len(u) /\ DOMAIN w = 1..Len(w)
      /\ k \in Nat /\ \A i \in 1..Len(u) : i + k \in 1..Len(w) /\ u[i] = w[i + k]
  BY EndStands
<1>1. PICK i \in 1..Len(u) :
        Cardinality({j \in 1..Len(u) : u[j].agent = u[i].agent /\ u[j].says = u[i].says}) > c.threshold
  BY <1>0 DEF Repeats, Times
<1> DEFINE A == {j \in 1..Len(u) : u[j].agent = u[i].agent /\ u[j].says = u[i].says}
           B == {j \in 1..Len(w) : w[j].agent = w[i + k].agent /\ w[j].says = w[i + k].says}
<1> HIDE DEF k
<1>2. /\ B \in SUBSET (1..Len(w)) /\ A \in SUBSET Nat /\ \A j \in A : j + k \in B
  BY <1>0
<1> HIDE DEF A, B
<1>3. Cardinality(A) \in Nat /\ Cardinality(B) \in Nat /\ Cardinality(A) <= Cardinality(B)
  BY <1>0, <1>2, ShiftedPositions
<1>4. Cardinality(B) > c.threshold
  <2>1. Cardinality(A) > c.threshold
    BY <1>1 DEF A
  <2> QED BY <2>1, <1>3
<1> QED BY <1>0, <1>4 DEF Repeats, Times, B

\* ... a state the work comes back to,
LEMMA OscillatesLasts ==
  ASSUME NEW u, NEW w, EndOf(u, w), NEW c, c.threshold \in Nat, Oscillates(u, c)
  PROVE  Oscillates(w, c)
<1> DEFINE k == Len(w) - Len(u)
<1>0. /\ Len(u) \in Nat /\ Len(w) \in Nat /\ DOMAIN u = 1..Len(u) /\ DOMAIN w = 1..Len(w)
      /\ k \in Nat /\ \A i \in 1..Len(u) : i + k \in 1..Len(w) /\ u[i] = w[i + k]
  BY EndStands
<1>1. PICK i \in 1..Len(u) : Cardinality({j \in 1..Len(u) : u[j].state = u[i].state}) > c.threshold
  BY <1>0 DEF Oscillates, Times
<1> DEFINE A == {j \in 1..Len(u) : u[j].state = u[i].state}
           B == {j \in 1..Len(w) : w[j].state = w[i + k].state}
<1> HIDE DEF k
<1>2. /\ B \in SUBSET (1..Len(w)) /\ A \in SUBSET Nat /\ \A j \in A : j + k \in B
  BY <1>0
<1> HIDE DEF A, B
<1>3. Cardinality(A) \in Nat /\ Cardinality(B) \in Nat /\ Cardinality(A) <= Cardinality(B)
  BY <1>0, <1>2, ShiftedPositions
<1>4. Cardinality(B) > c.threshold
  <2>1. Cardinality(A) > c.threshold
    BY <1>1 DEF A
  <2> QED BY <2>1, <1>3
<1> QED BY <1>0, <1>4 DEF Oscillates, Times, B

\* ... and a circle.
LEMMA CirclesLasts ==
  ASSUME NEW u, NEW w, EndOf(u, w), NEW c, c.threshold \in Nat, Circles(u, c)
  PROVE  Circles(w, c)
<1> DEFINE k == Len(w) - Len(u)
           su(i) == <<u[i].agent, u[i].state>>
           sw(i) == <<w[i].agent, w[i].state>>
<1>0. /\ Len(u) \in Nat /\ Len(w) \in Nat /\ DOMAIN u = 1..Len(u) /\ DOMAIN w = 1..Len(w)
      /\ k \in Nat /\ Len(w) = Len(u) + k /\ \A i \in 1..Len(u) : i + k \in 1..Len(w) /\ u[i] = w[i + k]
  BY EndStands
<1>1. PICK n \in 2..(Len(u) \div 2) :
        /\ Cardinality({u[i].agent : i \in (Len(u) - n + 1)..Len(u)}) > 1
        /\ Cardinality({i \in 1..(Len(u) - n + 1) :
                          \A j \in 0..(n - 1) : su(i + j) = su(Len(u) - n + 1 + j)}) > c.threshold
  BY DEF Circles
<1>2. Len(u) >= 4 /\ n <= Len(u) /\ n \in Nat /\ n >= 2 /\ n \in 2..(Len(w) \div 2) /\ Len(w) >= 4
  <2>1. Len(u) >= 4
    BY DEF Circles
  <2> QED BY <1>0, <1>1, <2>1
<1> HIDE DEF k
<1>3. {u[i].agent : i \in (Len(u) - n + 1)..Len(u)} = {w[i].agent : i \in (Len(w) - n + 1)..Len(w)}
  <2>1. ASSUME NEW i \in (Len(u) - n + 1)..Len(u)
        PROVE  i + k \in (Len(w) - n + 1)..Len(w) /\ u[i].agent = w[i + k].agent
    BY <1>0, <1>2
  <2>2. ASSUME NEW i \in (Len(w) - n + 1)..Len(w)
        PROVE  i - k \in (Len(u) - n + 1)..Len(u) /\ w[i].agent = u[i - k].agent
    <3>1. i - k \in 1..Len(u) /\ (i - k) + k = i
      BY <1>0, <1>2
    <3>2. u[i - k] = w[(i - k) + k]
      BY <1>0, <3>1
    <3> QED BY <1>0, <1>2, <3>1, <3>2
  <2>3. \A x : x \in {u[i].agent : i \in (Len(u) - n + 1)..Len(u)}
               => x \in {w[i].agent : i \in (Len(w) - n + 1)..Len(w)}
    BY <2>1
  <2>4. \A x : x \in {w[i].agent : i \in (Len(w) - n + 1)..Len(w)}
               => x \in {u[i].agent : i \in (Len(u) - n + 1)..Len(u)}
    BY <2>2
  <2> QED BY <2>3, <2>4
<1> DEFINE A == {i \in 1..(Len(u) - n + 1) : \A j \in 0..(n - 1) : su(i + j) = su(Len(u) - n + 1 + j)}
           B == {i \in 1..(Len(w) - n + 1) : \A j \in 0..(n - 1) : sw(i + j) = sw(Len(w) - n + 1 + j)}
<1>4. ASSUME NEW i \in A PROVE i + k \in B
  <2>1. i \in 1..(Len(u) - n + 1) /\ i \in Nat
    BY <1>0, <1>2
  <2>2. i + k \in 1..(Len(w) - n + 1)
    BY <1>0, <1>2, <2>1
  <2>3. ASSUME NEW j \in 0..(n - 1) PROVE sw(i + k + j) = sw(Len(w) - n + 1 + j)
    <3>0. j \in Nat /\ j <= n - 1 /\ i >= 1 /\ i <= Len(u) - n + 1
      BY <1>0, <1>2, <2>1
    <3>1. i + j \in 1..Len(u) /\ Len(u) - n + 1 + j \in 1..Len(u)
      BY <1>0, <1>2, <2>1, <3>0
    <3>2. su(i + j) = su(Len(u) - n + 1 + j)
      OBVIOUS
    <3>3. u[i + j] = w[i + j + k] /\ u[Len(u) - n + 1 + j] = w[Len(u) - n + 1 + j + k]
      BY <1>0, <3>1
    <3>4. i + j + k = i + k + j /\ Len(u) - n + 1 + j + k = Len(w) - n + 1 + j
      BY <1>0, <1>2, <2>1, <3>0
    <3> QED BY <3>2, <3>3, <3>4
  <2> QED BY <2>2, <2>3
<1>5. Len(w) - n + 1 \in Nat /\ B \in SUBSET (1..(Len(w) - n + 1)) /\ A \in SUBSET Nat /\ k \in Nat
  BY <1>0, <1>2
<1>6. Cardinality(A) > c.threshold
  BY <1>1
<1> HIDE DEF A, B
<1>7. Cardinality(A) \in Nat /\ Cardinality(B) \in Nat /\ Cardinality(A) <= Cardinality(B)
  BY <1>4, <1>5, ShiftedPositions
<1>8. Cardinality(B) > c.threshold
  BY <1>6, <1>7
<1> QED BY <1>1, <1>2, <1>3, <1>8 DEF Circles, B

\* So the end of a window in which nothing is found has nothing in it to find.
LEMMA EndsAreInnocent ==
  ASSUME NEW u, NEW w, EndOf(u, w), NEW c \in LoopConfigs, Verdict(w, c) = "none"
  PROVE  Verdict(u, c) = "none"
<1>1. c.threshold \in Nat
  BY LoopConstants
<1>2. Len(u) \in Nat /\ Len(w) \in Nat /\ Len(u) <= Len(w)
  BY LenProperties DEF EndOf
<1>3. CASE Len(u) < 2
  BY <1>3 DEF Verdict
<1>4. CASE ~(Len(u) < 2)
  <2>1. ~(Len(w) < 2)
    BY <1>2, <1>4
  <2>2. ~Repeats(w, c) /\ ~Oscillates(w, c) /\ ~Circles(w, c)
    BY <2>1 DEF Verdict
  <2>3. ~Repeats(u, c) /\ ~Oscillates(u, c) /\ ~Circles(u, c)
    BY <1>1, <2>2, RepeatsLasts, OscillatesLasts, CirclesLasts
  <2> QED BY <2>3 DEF Verdict
<1> QED BY <1>3, <1>4

\* There are no channels at the start.
LEMMA LoopInitially == LoopInit => LoopInv
BY DEF LoopInit, LoopInv

\* Every message, resumption, removal and reload preserves it.
LEMMA LoopStep == LoopInv /\ [LoopNext]_loopVars => LoopInv'
<1> SUFFICES ASSUME LoopInv, [LoopNext]_loopVars PROVE LoopInv'
  OBVIOUS
<1> USE DEF LoopInv
<1>1. ASSUME NEW ch \in LoopChannels, NEW a \in Speakers, NEW t \in Sayings, NEW st \in WorkStates,
             RecordAndCheck(ch, Snapshot(a, t, st))
      PROVE  LoopInv'
  <2> DEFINE w == Newest(Append(WindowOf(ch), Snapshot(a, t, st)), loopConfig.window)
  <2>1. Append(WindowOf(ch), Snapshot(a, t, st)) \in Seq(Messages)
    <3>1. WindowOf(ch) \in Seq(Messages)
      BY EmptySeq DEF WindowOf
    <3>2. Snapshot(a, t, st) \in Messages
      BY DEF Snapshot, Messages
    <3> QED BY <3>1, <3>2
  <2>2. w \in Seq(Messages)
    <3>1. loopConfig.window \in Nat
      BY LoopConstants
    <3> QED BY <2>1, <3>1, NewestIsEnd DEF EndOf
  <2>3. /\ tracker' = Put(tracker, ch, w) /\ judgedBy' = Put(judgedBy, ch, loopConfig)
        /\ halted' = (IF Verdict(w, loopConfig) = "none" THEN halted ELSE halted \cup {ch})
        /\ loopConfig' = loopConfig
    BY <1>1 DEF RecordAndCheck
  <2> HIDE DEF w
  <2>4. /\ DOMAIN tracker' = DOMAIN tracker \cup {ch} /\ DOMAIN judgedBy' = DOMAIN judgedBy \cup {ch}
        /\ tracker'[ch] = w /\ judgedBy'[ch] = loopConfig
        /\ \A c \in DOMAIN tracker \ {ch} : tracker'[c] = tracker[c]
        /\ \A c \in DOMAIN judgedBy \ {ch} : judgedBy'[c] = judgedBy[c]
    BY <2>3 DEF Put
  <2>5. halted \subseteq halted' /\ (ch \notin halted' => Verdict(w, loopConfig) = "none")
    BY <2>3
  <2> QED BY <2>2, <2>3, <2>4, <2>5
<1>2. ASSUME NEW ch \in LoopChannels, ResumeChannel(ch) PROVE LoopInv'
  <2>0. <<>> \in Seq(Messages) /\ \A c : Verdict(<<>>, c) = "none"
    BY EmptySeq DEF Verdict
  <2>1. /\ DOMAIN tracker' = DOMAIN tracker
        /\ \A c \in DOMAIN tracker : tracker'[c] = IF c = ch THEN <<>> ELSE tracker[c]
        /\ halted' = halted \ {ch} /\ UNCHANGED <<loopConfig, judgedBy>>
    BY <1>2 DEF ResumeChannel
  <2> QED BY <2>0, <2>1
<1>3. ASSUME NEW ch \in LoopChannels, RemoveChannel(ch) PROVE LoopInv'
  BY <1>3 DEF RemoveChannel
<1>4. ASSUME NEW new \in LoopConfigs, ReloadLoopConfig(new) PROVE LoopInv'
  <2>1. /\ DOMAIN tracker' = DOMAIN tracker /\ loopConfig' = new
        /\ \A c \in DOMAIN tracker : tracker'[c] = Newest(tracker[c], new.window)
        /\ UNCHANGED <<halted, judgedBy>>
    BY <1>4 DEF ReloadLoopConfig
  <2>2. ASSUME NEW c \in DOMAIN tracker PROVE EndOf(tracker'[c], tracker[c])
    <3>1. new.window \in Nat
      BY LoopConstants
    <3> QED BY <2>1, <3>1, NewestIsEnd
  <2>3. \A c \in DOMAIN tracker : tracker'[c] \in Seq(Messages)
    BY <2>2 DEF EndOf
  <2>4. ASSUME NEW c \in DOMAIN tracker \ halted PROVE Verdict(tracker'[c], judgedBy[c]) = "none"
    BY <2>2, EndsAreInnocent
  <2> QED BY <2>1, <2>3, <2>4
<1>5. CASE UNCHANGED loopVars
  BY <1>5 DEF loopVars
<1> QED BY <1>1, <1>2, <1>3, <1>4, <1>5 DEF LoopNext

\* In an open channel nothing turns in a circle by the measure of its last check,
\* however the channels are resumed and removed and the configuration reloaded.
THEOREM OpenChannelsMove == LoopSpec => []OpenChannelMovesOn
<1>1. LoopInv => OpenChannelMovesOn
  BY DEF LoopInv, OpenChannelMovesOn
<1> QED BY <1>1, LoopInitially, LoopStep, PTL DEF LoopSpec

-----------------------------------------------------------------------------
(* The agents *)

AgentSpec == AgentInit /\ [][AgentNext]_agentVars

Remarks == [id : Nat, disposable : BOOLEAN]

\* The window and what a compaction has taken along hold messages that were made,
\* of each identifier one, and no more of them than the window has room for.
AgentInv ==
  /\ made \in Nat
  /\ recentMessages \in Seq(Remarks) /\ Len(recentMessages) <= Window
  /\ compaction \in Seq(Remarks) /\ Len(compaction) <= Window
  /\ \A m \in ToSet(recentMessages) \cup ToSet(compaction) : m.id <= made
  /\ \A m, n \in ToSet(recentMessages) \cup ToSet(compaction) : m.id = n.id => m = n

\* What a step may take out of the memory of a running agent.
MemoryStep ==
  \A i \in Remembered \ (Ids(Lasting(recentMessages')) \cup summary') :
     \/ Len(recentMessages) = Window /\ i = Head(recentMessages).id
     \/ compaction # NothingTaken /\ compaction' = NothingTaken
          /\ (i \notin Ids(compaction) \/ savedSummary' = {})

\* The messages that last are those of the window that are not disposable.
LEMMA LastingMessages ==
  ASSUME NEW s \in Seq(Remarks)
  PROVE  /\ Lasting(s) \in Seq(Remarks) /\ Len(Lasting(s)) <= Len(s)
         /\ ToSet(Lasting(s)) = {m \in ToSet(s) : ~m.disposable}
<1> DEFINE I == {i \in 1..Len(s) : ~s[i].disposable}
<1>1. Lasting(s) = At(s, I) /\ DOMAIN s = 1..Len(s)
  BY LenProperties DEF Lasting
<1>2. I \in SUBSET (1..Len(s))
  OBVIOUS
<1>3. /\ At(s, I) \in Seq(Remarks) /\ Len(At(s, I)) = Cardinality(I)
      /\ Cardinality(I) \in Nat /\ Cardinality(I) <= Len(s)
      /\ \A k \in 1..Cardinality(I) : \E i \in I : At(s, I)[k] = s[i]
      /\ \A i \in I : \E k \in 1..Cardinality(I) : At(s, I)[k] = s[i]
  BY <1>2, AtProperties
<1>4. DOMAIN At(s, I) = 1..Cardinality(I)
  BY <1>3, LenProperties
<1>5. ASSUME NEW m \in ToSet(At(s, I)) PROVE m \in ToSet(s) /\ ~m.disposable
  <2>1. PICK k \in 1..Cardinality(I) : m = At(s, I)[k]
    BY <1>4 DEF ToSet
  <2>2. PICK i \in I : m = s[i]
    BY <1>3, <2>1
  <2> QED BY <1>1, <2>2 DEF ToSet
<1>6. ASSUME NEW m \in ToSet(s), ~m.disposable PROVE m \in ToSet(At(s, I))
  <2>1. PICK i \in I : m = s[i]
    BY <1>1, <1>6 DEF ToSet
  <2>2. PICK k \in 1..Cardinality(I) : m = At(s, I)[k]
    BY <1>3, <2>1
  <2> QED BY <1>4, <2>2 DEF ToSet
<1> QED BY <1>1, <1>3, <1>5, <1>6

\* The newest members of a sequence of messages are messages of it.
LEMMA NewestRemarks ==
  ASSUME NEW s \in Seq(Remarks), NEW n \in Nat
  PROVE  /\ Newest(s, n) \in Seq(Remarks) /\ ToSet(Newest(s, n)) \subseteq ToSet(s)
         /\ Len(Newest(s, n)) = IF Len(s) <= n THEN Len(s) ELSE n
<1>1. DOMAIN s = 1..Len(s)
  BY LenProperties
<1>2. /\ Newest(s, n) \in Seq(Remarks)
      /\ Len(Newest(s, n)) = IF Len(s) <= n THEN Len(s) ELSE n
      /\ \A i \in 1..Len(Newest(s, n)) :
           /\ i + (Len(s) - Len(Newest(s, n))) \in 1..Len(s)
           /\ Newest(s, n)[i] = s[i + (Len(s) - Len(Newest(s, n)))]
  BY NewestProperties
<1>3. DOMAIN Newest(s, n) = 1..Len(Newest(s, n))
  BY <1>2, LenProperties
<1> QED BY <1>1, <1>2, <1>3 DEF ToSet

\* A message that is added pushes out the oldest one when the window is full.
LEMMA MessageAdded ==
  ASSUME AgentInv, NEW d \in BOOLEAN, AddMessage(d), compaction' \in {compaction, NothingTaken}
  PROVE  /\ AgentInv'
         /\ summary' = summary => MemoryStep
<1> DEFINE new == [id |-> made + 1, disposable |-> d]
           all == Append(recentMessages, new)
<1>0. /\ made \in Nat /\ recentMessages \in Seq(Remarks) /\ Len(recentMessages) \in Nat
      /\ Len(recentMessages) <= Window /\ Window \in Nat \ {0}
      /\ DOMAIN recentMessages = 1..Len(recentMessages)
  BY AgentConstants, LenProperties DEF AgentInv
<1>1. new \in Remarks
  BY <1>0 DEF Remarks
<1>2. /\ all \in Seq(Remarks) /\ Len(all) = Len(recentMessages) + 1 /\ DOMAIN all = 1..Len(all)
      /\ \A i \in 1..Len(recentMessages) : all[i] = recentMessages[i]
      /\ all[Len(recentMessages) + 1] = new
  <2>1. /\ all \in Seq(Remarks) /\ Len(all) = Len(recentMessages) + 1
        /\ \A i \in 1..Len(recentMessages) : all[i] = recentMessages[i]
        /\ all[Len(recentMessages) + 1] = new
    BY <1>0, <1>1
  <2> QED BY <2>1, LenProperties
<1>3. made' = made + 1 /\ recentMessages' = Newest(all, Window)
  BY DEF AddMessage, Added
<1>4. /\ Newest(all, Window) \in Seq(Remarks)
      /\ Len(Newest(all, Window)) = IF Len(all) <= Window THEN Len(all) ELSE Window
      /\ \A i \in 1..Len(Newest(all, Window)) :
           /\ i + (Len(all) - Len(Newest(all, Window))) \in 1..Len(all)
           /\ Newest(all, Window)[i] = all[i + (Len(all) - Len(Newest(all, Window)))]
  BY <1>0, <1>2, NewestProperties
<1> HIDE DEF all
<1>5. ToSet(recentMessages') \subseteq ToSet(recentMessages) \cup {new}
  <2>1. ToSet(recentMessages') \subseteq ToSet(all)
    BY <1>0, <1>2, <1>3, NewestRemarks
  <2>2. ToSet(all) \subseteq ToSet(recentMessages) \cup {new}
    <3>1. ASSUME NEW i \in 1..Len(all) PROVE all[i] \in ToSet(recentMessages) \cup {new}
      <4>1. CASE i <= Len(recentMessages)
        <5>1. i \in 1..Len(recentMessages)
          BY <1>0, <1>2, <4>1
        <5> QED BY <1>0, <1>2, <5>1 DEF ToSet
      <4>2. CASE i > Len(recentMessages)
        <5>1. i = Len(recentMessages) + 1
          BY <1>0, <1>2, <4>2
        <5> QED BY <1>2, <5>1
      <4> QED BY <1>0, <1>2, <4>1, <4>2
    <3> QED BY <1>2, <3>1 DEF ToSet
  <2> QED BY <2>1, <2>2
<1>6. AgentInv'
  <2>1. ToSet(compaction') \subseteq ToSet(compaction)
    BY DEF NothingTaken, ToSet
  <2>2. compaction' \in Seq(Remarks) /\ Len(compaction') <= Window
    <3>1. CASE compaction' = compaction
      BY <3>1 DEF AgentInv
    <3>2. CASE compaction' = <<>>
      <4>1. <<>> \in Seq(Remarks) /\ Len(<<>>) = 0
        BY EmptySeq
      <4> QED BY <1>0, <3>2, <4>1
    <3> QED BY <3>1, <3>2 DEF NothingTaken
  <2>3. /\ \A m \in ToSet(recentMessages) \cup ToSet(compaction) : m.id <= made /\ m.id \in Nat
        /\ new.id = made + 1
    <3>1. \A m \in ToSet(recentMessages) \cup ToSet(compaction) : m \in Remarks
      BY LenProperties, ElementOfSeq DEF ToSet, AgentInv
    <3> QED BY <3>1 DEF AgentInv, Remarks
  <2> HIDE DEF new
  <2>4. \A m \in ToSet(recentMessages') \cup ToSet(compaction') : m.id <= made'
    BY <1>0, <1>3, <1>5, <2>1, <2>3
  <2>5. \A m, n \in ToSet(recentMessages') \cup ToSet(compaction') : m.id = n.id => m = n
    <3>1. SUFFICES ASSUME NEW m \in ToSet(recentMessages) \cup ToSet(compaction) \cup {new},
                          NEW n \in ToSet(recentMessages) \cup ToSet(compaction) \cup {new}, m.id = n.id
                   PROVE  m = n
      BY <1>5, <2>1
    <3>2. CASE m = new \/ n = new
      BY <1>0, <2>3, <3>1, <3>2
    <3>3. CASE m # new /\ n # new
      BY <3>1, <3>3 DEF AgentInv
    <3> QED BY <3>2, <3>3
  <2>6. Len(recentMessages') <= Window /\ recentMessages' \in Seq(Remarks) /\ made' \in Nat
    BY <1>0, <1>2, <1>3, <1>4
  <2> QED BY <2>2, <2>4, <2>5, <2>6 DEF AgentInv
<1>7. ASSUME summary' = summary PROVE MemoryStep
  <2> SUFFICES ASSUME NEW i \in Remembered, i \notin Ids(Lasting(recentMessages')), i \notin summary'
               PROVE  Len(recentMessages) = Window /\ i = Head(recentMessages).id
    BY DEF MemoryStep
  <2>1. i \in Ids(Lasting(recentMessages))
    BY <1>7 DEF Remembered
  <2>2. PICK p \in 1..Len(recentMessages) : recentMessages[p].id = i /\ ~recentMessages[p].disposable
    <3>1. ToSet(Lasting(recentMessages)) = {m \in ToSet(recentMessages) : ~m.disposable}
      BY <1>0, LastingMessages
    <3> QED BY <1>0, <2>1, <3>1 DEF Ids, ToSet
  <2>3. recentMessages[p] \notin ToSet(recentMessages')
    <3>1. ToSet(Lasting(recentMessages')) = {m \in ToSet(recentMessages') : ~m.disposable}
      BY <1>3, <1>4, LastingMessages
    <3> QED BY <2>2, <3>1 DEF Ids
  <2>4. \A k \in 1..Len(Newest(all, Window)) : Newest(all, Window)[k] # recentMessages[p]
    <3>1. DOMAIN Newest(all, Window) = 1..Len(Newest(all, Window))
      BY <1>4, LenProperties
    <3> QED BY <1>3, <2>3, <3>1 DEF ToSet
  <2>5. CASE Len(recentMessages) < Window
    <3>1. Len(Newest(all, Window)) = Len(all)
      BY <1>0, <1>2, <1>4, <2>5
    <3>2. p \in 1..Len(Newest(all, Window)) /\ p + (Len(all) - Len(Newest(all, Window))) = p
      BY <1>0, <1>2, <3>1
    <3> QED BY <1>2, <1>4, <2>4, <3>2
  <2>6. CASE Len(recentMessages) = Window
    <3>1. Len(Newest(all, Window)) = Window /\ Len(all) = Window + 1
      BY <1>0, <1>2, <1>4, <2>6
    <3>2. CASE p > 1
      <4>1. /\ p - 1 \in 1..Len(Newest(all, Window))
            /\ (p - 1) + (Len(all) - Len(Newest(all, Window))) = p
        BY <1>0, <2>6, <3>1, <3>2
      <4> QED BY <1>2, <1>4, <2>4, <4>1
    <3>3. CASE p = 1
      <4>1. Head(recentMessages) = recentMessages[1]
        BY <1>0, <2>6
      <4> QED BY <2>2, <2>6, <3>3, <4>1
    <3>4. p > 1 \/ p = 1
      BY <1>0
    <3> QED BY <3>2, <3>3, <3>4
  <2>7. Len(recentMessages) < Window \/ Len(recentMessages) = Window
    <3>1. Len(recentMessages) \in Nat /\ Window \in Nat /\ Len(recentMessages) <= Window
      BY <1>0
    <3> QED BY <3>1
  <2> QED BY <2>5, <2>6, <2>7
<1> QED BY <1>6, <1>7

\* The end of a compaction leaves messages it had taken along, under a note.
LEMMA CompactionEnds ==
  ASSUME AgentInv, NEW reply \in Summaries, FinishCompaction(reply)
  PROVE  AgentInv' /\ MemoryStep
<1> DEFINE kept == Newest(Lasting(compaction), Retained)
           note == [id |-> made + 1, disposable |-> TRUE]
<1>0. /\ made \in Nat /\ compaction \in Seq(Remarks) /\ Len(compaction) \in Nat
      /\ Len(compaction) <= Window /\ Window \in Nat /\ Retained \in Nat
  BY AgentConstants, LenProperties DEF AgentInv
<1>1. /\ made' = made + 1 /\ compaction' = <<>> /\ recentMessages' = Remaining(compaction)
      /\ savedSummary' = reply /\ summary' = reply
  BY DEF FinishCompaction, NothingTaken
<1>2. /\ kept \in Seq(Remarks) /\ ToSet(kept) \subseteq ToSet(compaction)
      /\ Len(kept) \in Nat /\ Len(kept) <= Len(compaction)
  <2>1. /\ Lasting(compaction) \in Seq(Remarks) /\ Len(Lasting(compaction)) <= Len(compaction)
        /\ ToSet(Lasting(compaction)) \subseteq ToSet(compaction)
    BY <1>0, LastingMessages
  <2>2. /\ kept \in Seq(Remarks) /\ ToSet(kept) \subseteq ToSet(Lasting(compaction))
        /\ Len(kept) = IF Len(Lasting(compaction)) <= Retained THEN Len(Lasting(compaction)) ELSE Retained
    BY <1>0, <2>1, NewestRemarks
  <2>3. Len(kept) \in Nat /\ Len(Lasting(compaction)) \in Nat
    BY <2>1, <2>2, LenProperties
  <2> HIDE DEF kept
  <2> QED BY <1>0, <2>1, <2>2, <2>3
<1> HIDE DEF kept
<1>3. note \in Remarks
  BY <1>0 DEF Remarks
<1>4. recentMessages' = IF Len(compaction) > Len(kept) THEN <<note>> \o kept ELSE kept
  BY <1>1 DEF Remaining, kept
<1>5. /\ recentMessages' \in Seq(Remarks) /\ Len(recentMessages') <= Window
      /\ ToSet(recentMessages') \subseteq ToSet(compaction) \cup {note}
  <2>1. CASE Len(compaction) > Len(kept)
    <3>1. <<note>> \in Seq(Remarks) /\ Len(<<note>>) = 1 /\ <<note>>[1] = note
      BY <1>3
    <3>2. /\ <<note>> \o kept \in Seq(Remarks) /\ Len(<<note>> \o kept) = Len(<<note>>) + Len(kept)
          /\ \A i \in 1..Len(<<note>>) + Len(kept) :
               (<<note>> \o kept)[i] = IF i <= Len(<<note>>) THEN <<note>>[i] ELSE kept[i - Len(<<note>>)]
      BY <1>2, <3>1, ConcatProperties
    <3>3. DOMAIN (<<note>> \o kept) = 1..(Len(kept) + 1) /\ DOMAIN kept = 1..Len(kept)
      BY <1>2, <3>1, <3>2, LenProperties
    <3> HIDE DEF note
    <3>4. ASSUME NEW i \in 1..(Len(kept) + 1) PROVE (<<note>> \o kept)[i] \in ToSet(kept) \cup {note}
      <4>1. CASE i = 1
        BY <1>2, <3>1, <3>2, <4>1
      <4>2. CASE i # 1
        <5>1. i - 1 \in 1..Len(kept) /\ (<<note>> \o kept)[i] = kept[i - 1]
          BY <1>2, <3>1, <3>2, <4>2
        <5> QED BY <3>3, <5>1 DEF ToSet
      <4> QED BY <4>1, <4>2
    <3>5. ToSet(<<note>> \o kept) \subseteq ToSet(kept) \cup {note}
      BY <3>3, <3>4 DEF ToSet
    <3>6. Len(<<note>> \o kept) <= Window
      BY <1>0, <1>2, <2>1, <3>1, <3>2
    <3> QED BY <1>2, <1>4, <2>1, <3>2, <3>5, <3>6
  <2>2. CASE ~(Len(compaction) > Len(kept))
    BY <1>0, <1>2, <1>4, <2>2
  <2> QED BY <2>1, <2>2
<1>6. AgentInv'
  <2>1. ToSet(compaction') = {} /\ compaction' \in Seq(Remarks) /\ Len(compaction') <= Window
    <3>1. <<>> \in Seq(Remarks) /\ Len(<<>>) = 0
      BY EmptySeq
    <3> QED BY <1>0, <1>1, <3>1 DEF ToSet
  <2>2. \A m \in ToSet(compaction) : m.id <= made /\ m.id \in Nat
    <3>1. \A m \in ToSet(compaction) : m \in Remarks
      BY <1>0, LenProperties, ElementOfSeq DEF ToSet
    <3> QED BY <3>1 DEF AgentInv, Remarks
  <2>3. note.id = made + 1
    OBVIOUS
  <2> HIDE DEF note
  <2>4. \A m \in ToSet(recentMessages') \cup ToSet(compaction') : m.id <= made'
    BY <1>0, <1>1, <1>5, <2>1, <2>2, <2>3
  <2>5. \A m, n \in ToSet(recentMessages') \cup ToSet(compaction') : m.id = n.id => m = n
    <3>1. SUFFICES ASSUME NEW m \in ToSet(compaction) \cup {note},
                          NEW n \in ToSet(compaction) \cup {note}, m.id = n.id
                   PROVE  m = n
      BY <1>5, <2>1
    <3>2. CASE m = note \/ n = note
      BY <1>0, <2>2, <2>3, <3>1, <3>2
    <3>3. CASE m # note /\ n # note
      BY <3>1, <3>3 DEF AgentInv
    <3> QED BY <3>2, <3>3
  <2>6. made' \in Nat
    BY <1>0, <1>1
  <2> QED BY <1>5, <2>1, <2>4, <2>5, <2>6 DEF AgentInv
<1>7. MemoryStep
  <2> SUFFICES ASSUME NEW i \in Remembered, i \notin summary', i \in Ids(compaction), reply # {}
               PROVE  FALSE
    BY <1>1 DEF MemoryStep, FinishCompaction, NothingTaken
  <2>1. reply = summary \cup {m.id : m \in {n \in ToSet(compaction) : ~n.disposable}}
    BY DEF Summaries
  <2>2. i \in Ids(Lasting(recentMessages))
    BY <1>1, <2>1 DEF Remembered
  <2>3. PICK m \in ToSet(recentMessages) : m.id = i /\ ~m.disposable
    <3>1. ToSet(Lasting(recentMessages)) = {m \in ToSet(recentMessages) : ~m.disposable}
      BY LastingMessages DEF AgentInv
    <3> QED BY <2>2, <3>1 DEF Ids
  <2>4. PICK n \in ToSet(compaction) : n.id = i
    BY DEF Ids
  <2>5. m = n
    BY <2>3, <2>4 DEF AgentInv
  <2> QED BY <1>1, <2>1, <2>3, <2>4, <2>5
<1> QED BY <1>6, <1>7

\* Nothing was said at the start.
LEMMA AgentInitially == AgentInit => AgentInv
<1> SUFFICES ASSUME AgentInit PROVE AgentInv
  OBVIOUS
<1>1. <<>> \in Seq(Remarks) /\ Len(<<>>) = 0 /\ ToSet(<<>>) = {}
  BY EmptySeq DEF ToSet
<1> QED BY <1>1, AgentConstants DEF AgentInit, AgentInv, NothingTaken

\* A step that leaves the window or empties it, and takes along what is in it or nothing.
LEMMA WindowLeft ==
  ASSUME AgentInv, made' = made, recentMessages' \in {recentMessages, <<>>},
         compaction' \in {compaction, recentMessages, <<>>}
  PROVE  AgentInv'
<1>1. <<>> \in Seq(Remarks) /\ Len(<<>>) = 0 /\ ToSet(<<>>) = {}
  BY EmptySeq DEF ToSet
<1>2. Window \in Nat
  BY AgentConstants
<1>3. /\ ToSet(recentMessages') \subseteq ToSet(recentMessages)
      /\ recentMessages' \in Seq(Remarks) /\ Len(recentMessages') <= Window
  <2>1. CASE recentMessages' = recentMessages
    BY <2>1 DEF AgentInv
  <2>2. CASE recentMessages' = <<>>
    BY <1>1, <1>2, <2>2
  <2> QED BY <2>1, <2>2
<1>4. /\ ToSet(compaction') \subseteq ToSet(recentMessages) \cup ToSet(compaction)
      /\ compaction' \in Seq(Remarks) /\ Len(compaction') <= Window
  <2>1. CASE compaction' = compaction \/ compaction' = recentMessages
    BY <2>1 DEF AgentInv
  <2>2. CASE compaction' = <<>>
    BY <1>1, <1>2, <2>2
  <2> QED BY <2>1, <2>2
<1>5. ToSet(recentMessages') \cup ToSet(compaction') \subseteq ToSet(recentMessages) \cup ToSet(compaction)
  BY <1>3, <1>4
<1> QED BY <1>3, <1>4, <1>5 DEF AgentInv

\* Every step preserves the invariant and, of a running agent, its memory.
LEMMA AgentStep ==
  ASSUME AgentInv, [AgentNext]_agentVars
  PROVE  AgentInv' /\ (Listening /\ agentLoop' # "ended" => MemoryStep)
<1>1. ASSUME made' = made, recentMessages' = recentMessages, summary' = summary,
             compaction' \in {compaction, recentMessages, <<>>}
      PROVE  AgentInv' /\ MemoryStep
  <2>1. AgentInv'
    BY <1>1, WindowLeft
  <2>2. MemoryStep
    BY <1>1 DEF MemoryStep, Remembered
  <2> QED BY <2>1, <2>2
<1>2. CASE RunAgent
  <2>1. AgentInv'
    BY <1>2, WindowLeft DEF RunAgent, NothingTaken
  <2>2. ~Listening
    BY <1>2 DEF RunAgent, Listening
  <2> QED BY <2>1, <2>2
<1>3. CASE HandleMessage
  <2>1. CASE Head(inbox) = "garbled"
    BY <1>1, <1>3, <2>1 DEF HandleMessage
  <2>2. CASE Head(inbox) # "garbled"
    <3>1. (Head(inbox) = "disposable") \in BOOLEAN
      OBVIOUS
    <3> QED BY <1>3, <2>2, <3>1, MessageAdded DEF HandleMessage
  <2> QED BY <2>1, <2>2
<1>4. CASE AttemptFails \/ AttemptRefused
  BY <1>1, <1>4 DEF AttemptFails, AttemptRefused
<1>5. CASE Answer
  <2>1. AddMessage(FALSE) /\ compaction' = compaction /\ summary' = summary
    BY <1>5 DEF Answer
  <2> QED BY <2>1, MessageAdded
<1>6. CASE ShutdownAgent
  <2>1. AgentInv' /\ agentLoop' = "ended"
    BY <1>1, <1>6 DEF ShutdownAgent, NothingTaken
  <2> QED BY <2>1
<1>7. ASSUME NEW kind, Publish(kind) PROVE AgentInv' /\ MemoryStep
  BY <1>1, <1>7 DEF Publish
<1>8. CASE BeginCompaction \/ FailCompaction
  BY <1>1, <1>8 DEF BeginCompaction, FailCompaction, NothingTaken
<1>9. ASSUME NEW reply \in Summaries, FinishCompaction(reply) PROVE AgentInv' /\ MemoryStep
  BY <1>9, CompactionEnds
<1>10. CASE ReloadDocument
  <2>1. AddMessage(TRUE) /\ compaction' = compaction /\ summary' = summary
    BY <1>10 DEF ReloadDocument
  <2> QED BY <2>1, MessageAdded
<1>11. CASE UNCHANGED agentVars
  BY <1>1, <1>11 DEF agentVars
<1> QED
  BY <1>2, <1>3, <1>4, <1>5, <1>6, <1>7, <1>8, <1>9, <1>10, <1>11 DEF AgentNext, AttemptEnds

\* What lasts leaves the memory of a running agent only by the full window, by a
\* compaction that had not taken it along, or by an empty summary, for any window
\* and any number of messages, compactions and starts.
THEOREM AgentsRemember == AgentSpec => MemoryIsKept
<1>1. AgentInv /\ [AgentNext]_agentVars => AgentInv'
  BY AgentStep
<1>2. AgentInv /\ [AgentNext]_agentVars =>
        [Listening /\ agentLoop' # "ended" =>
           \A i \in Remembered \ (Ids(Lasting(recentMessages')) \cup summary') :
              \/ Len(recentMessages) = Window /\ i = Head(recentMessages).id
              \/ compaction # NothingTaken /\ compaction' = NothingTaken
                   /\ (i \notin Ids(compaction) \/ savedSummary' = {})]_agentVars
  BY AgentStep DEF MemoryStep
<1> QED BY <1>1, <1>2, AgentInitially, PTL DEF AgentSpec, MemoryIsKept

-----------------------------------------------------------------------------
(* The code of the Python tool *)

PythonSpec == PyInit /\ [][PyNext]_pyVars

Results == [timedOut : BOOLEAN, traceback : BOOLEAN, exit : Int]

Events == {"started", "complete", "error"}
Places == PyDirs \cup PyAsked \cup {NowhereYet}

Called ==
  [at : {"refused", "started", "placed", "raised", "returned"}, job : PyJobs, dir : PyAsked,
   target : {"host", "sandbox", "refused"}, limit : PyTimeouts, result : Results,
   ranIn : Places, events : Seq(Events)]

(***************************************************************************)
(* A path below one of the roots                                           *)
(***************************************************************************)
\* A path is its prefix and what follows it.
LEMMA PrefixAndRest ==
  ASSUME NEW S, NEW s \in Seq(S), NEW t \in Seq(S), IsPrefix(s, t)
  PROVE  s \o SubSeq(t, Len(s) + 1, Len(t)) = t
<1>1. Len(s) <= Len(t) /\ SubSeq(s, 1, Len(s)) = SubSeq(t, 1, Len(s))
  BY DEF IsPrefix
<1>2. \A i \in 1..Len(s) : s[i] = t[i]
  BY <1>1
<1> QED BY <1>1, <1>2

\* The root that is mounted is one of those around the directory.
LEMMA MountIsAround ==
  ASSUME NEW dir, Around(dir) # {}
  PROVE  MountRoot(dir) \in Around(dir)
BY PythonConstants DEF MountRoot, Around

\* Directories below the same roots have the same one mounted, and their path
\* in the container leads back to them.
LEMMA SameRoots ==
  ASSUME NEW d \in PyAsked, NEW dir \in PyAsked, Around(d) = Around(dir), Around(dir) # {}
  PROVE  MountRoot(d) \o WorkPath(dir) = dir
<1>1. MountRoot(d) = MountRoot(dir)
  BY DEF MountRoot
<1>2. MountRoot(dir) \in Seq(STRING) /\ IsPrefix(MountRoot(dir), dir) /\ dir \in Seq(STRING)
  BY MountIsAround, PythonConstants DEF Around
<1> QED BY <1>1, <1>2, PrefixAndRest DEF WorkPath

(***************************************************************************)
(* The invariant                                                           *)
(***************************************************************************)
InSandbox(d) == pyCall[d].at # "idle" /\ pyCall[d].target = "sandbox"

\* The shared container mounts the root of a call that was made for it; a call
\* that is made for it lies below an allowed root, if there are any.
PyInv ==
  /\ pyCall \in [PyCalls -> Called \cup {NotCalled}]
  /\ \A c \in PyCalls : InSandbox(c) => Inside(pyCall[c].dir, AllowedRoots)
  /\ \A c \in PyCalls : pyCall[c].at = "placed" => pyBox.known /\ InSandbox(c)
  /\ pyBox.known => \E d \in PyCalls : InSandbox(d) /\ pyBox.mount = MountRoot(pyCall[d].dir)
  /\ RunsWhereAsked

\* What a wrapper hands over is one of three results.
LEMMA PrintedResult ==
  ASSUME NEW S, NEW a \in S, NEW b \in S, NEW d \in S,
         NEW w \in {[printed |-> TRUE, result |-> a], [printed |-> TRUE, result |-> b],
                    [printed |-> TRUE, result |-> d], [printed |-> FALSE, result |-> d]}
  PROVE  w.result \in S
OBVIOUS

\* A run ends with a result.
LEMMA RunsHaveResults ==
  ASSUME NEW job, NEW limit
  PROVE  RunLocally(job, limit) \in Results /\ RunInContainer(job, limit) \in Results
<1>1. \A j : ExitStatus(j) \in Int
  BY DEF ExitStatus
<1>2. \A t, b \in BOOLEAN, e \in Int : Result(t, b, e) \in Results
  BY DEF Result, Results
<1>3. Done \in Results /\ Cut \in Results
  <2>1. TRUE \in BOOLEAN /\ FALSE \in BOOLEAN /\ 0 \in Int /\ -1 \in Int
    OBVIOUS
  <2> QED BY <1>2, <2>1 DEF Done, Cut
<1>4. \A j, l : RunSubprocess(j, l) \in Results
  BY <1>1, <1>2, <1>3 DEF RunSubprocess
<1>5. ExecuteCode(job, limit) \in Results
  BY <1>1, <1>2, <1>3 DEF ExecuteCode
<1>6. InstallPackages(job, limit) \in Results /\ InstallOsPackages(job, limit) \in Results
  BY <1>3, <1>4 DEF InstallPackages, InstallOsPackages
<1>7. Result(FALSE, TRUE, 1) \in Results /\ Result(FALSE, FALSE, 1) \in Results
  BY DEF Result, Results
<1>8. CodeWrapper(job, limit).result \in Results
  <2>1. CodeWrapper(job, limit) \in {[printed |-> TRUE, result |-> Cut],
          [printed |-> TRUE, result |-> Result(FALSE, TRUE, 1)],
          [printed |-> TRUE, result |-> Done], [printed |-> FALSE, result |-> Done]}
    BY DEF CodeWrapper
  <2> QED BY <1>3, <1>7, <2>1, PrintedResult
<1>9. CommandWrapper(job, limit) \in Results
  BY <1>4, <1>7 DEF CommandWrapper
<1> QED BY <1>3, <1>5, <1>6, <1>8, <1>9 DEF RunLocally, RunInContainer

\* A call moves on, perhaps with a new container; what it was asked for stays.
LEMMA CallMoves ==
  ASSUME PyInv, NEW c \in PyCalls, NEW r \in Called,
         pyCall' = [pyCall EXCEPT ![c] = r],
         pyCall[c].at # "idle" => r.dir = pyCall[c].dir /\ r.target = pyCall[c].target,
         r.target = "sandbox" => Inside(r.dir, AllowedRoots),
         r.at = "placed" => pyBox'.known /\ r.target = "sandbox",
         \/ pyBox' = pyBox
         \/ pyBox'.known /\ r.target = "sandbox" /\ pyBox'.mount = MountRoot(r.dir),
         r.at = "returned" /\ r.ranIn \notin {r.dir, NowhereYet} =>
           \/ AllowedRoots = {}
           \/ \E d \in PyCalls : InSandbox(d) /\ Around(pyCall[d].dir) # Around(r.dir)
  PROVE  PyInv'
<1>1. /\ pyCall' \in [PyCalls -> Called \cup {NotCalled}] /\ pyCall'[c] = r
      /\ \A d \in PyCalls \ {c} : pyCall'[d] = pyCall[d]
  BY DEF PyInv
<1>2. r.at # "idle"
  BY DEF Called
<1>3. \A d \in PyCalls : InSandbox(d) =>
        InSandbox(d)' /\ pyCall'[d].dir = pyCall[d].dir
  BY <1>1, <1>2 DEF InSandbox
<1>4. \A d \in PyCalls : InSandbox(d)' => Inside(pyCall'[d].dir, AllowedRoots)
  BY <1>1 DEF PyInv, InSandbox
<1>5. pyBox.known => pyBox'.known
  OBVIOUS
<1>6. \A d \in PyCalls : pyCall'[d].at = "placed" => pyBox'.known /\ InSandbox(d)'
  BY <1>1, <1>2, <1>5 DEF PyInv, InSandbox
<1>7. pyBox'.known => \E d \in PyCalls : InSandbox(d)' /\ pyBox'.mount = MountRoot(pyCall'[d].dir)
  <2>1. CASE pyBox' = pyBox
    BY <1>3, <2>1 DEF PyInv
  <2>2. CASE r.target = "sandbox" /\ pyBox'.mount = MountRoot(r.dir)
    BY <1>1, <1>2, <2>2 DEF InSandbox
  <2> QED BY <2>1, <2>2
<1>8. RunsWhereAsked'
  <2> SUFFICES ASSUME NEW e \in PyCalls, pyCall'[e].at = "returned",
                      pyCall'[e].ranIn \notin {pyCall'[e].dir, NowhereYet}, AllowedRoots # {}
               PROVE  \E d \in PyCalls : InSandbox(d)' /\ Around(pyCall'[d].dir) # Around(pyCall'[e].dir)
    BY DEF RunsWhereAsked, InSandbox
  <2>1. \E d \in PyCalls : InSandbox(d) /\ Around(pyCall[d].dir) # Around(pyCall'[e].dir)
    BY <1>1 DEF PyInv, RunsWhereAsked, InSandbox
  <2> QED BY <1>3, <2>1
<1> QED BY <1>1, <1>4, <1>6, <1>7, <1>8 DEF PyInv, InSandbox, Inside, MountRoot, Around

\* A call that was made is one of Called.
LEMMA MadeIsCalled ==
  ASSUME PyInv, NEW c \in PyCalls, pyCall[c].at # "idle"
  PROVE  pyCall[c] \in Called
BY DEF PyInv, NotCalled

\* A call goes to the sandbox, or raises.
LEMMA StepSafe ==
  ASSUME PyInv, NEW c \in PyCalls, pyCall[c].at # "idle", NEW at \in {"placed", "raised"},
         Step(c, at), at = "placed" => pyBox'.known /\ pyCall[c].target = "sandbox",
         \/ pyBox' = pyBox
         \/ /\ pyBox'.known /\ pyCall[c].target = "sandbox"
            /\ pyBox'.mount = MountRoot(pyCall[c].dir)
  PROVE  PyInv'
<1> DEFINE r == [pyCall[c] EXCEPT !.at = at]
<1>1. pyCall[c] \in Called
  BY MadeIsCalled
<1>2. /\ r \in Called /\ r.at = at /\ r.dir = pyCall[c].dir /\ r.target = pyCall[c].target
  BY <1>1 DEF Called
<1>3. pyCall' = [pyCall EXCEPT ![c] = r]
  BY DEF Step
<1>4. r.target = "sandbox" => Inside(r.dir, AllowedRoots)
  BY <1>2 DEF PyInv, InSandbox
<1> HIDE DEF r
<1> QED BY <1>2, <1>3, <1>4, CallMoves

\* The end of a run, in a directory.
LEMMA EndSafe ==
  ASSUME PyInv, NEW c \in PyCalls, pyCall[c].at # "idle", UNCHANGED pyBox,
         NEW result \in Results, NEW where \in Places, Ended(c, result, where),
         where \notin {pyCall[c].dir, NowhereYet} =>
           \/ AllowedRoots = {}
           \/ \E d \in PyCalls : InSandbox(d) /\ Around(pyCall[d].dir) # Around(pyCall[c].dir)
  PROVE  PyInv'
<1> DEFINE event == IF Success(result) THEN "complete" ELSE "error"
           r == [pyCall[c] EXCEPT !.at = "returned", !.result = result, !.ranIn = where,
                                  !.events = Append(@, event)]
<1>1. pyCall[c] \in Called
  BY MadeIsCalled
<1>2. Append(pyCall[c].events, event) \in Seq(Events)
  BY <1>1 DEF Called, Events
<1>3. r = [pyCall[c] EXCEPT !.at = "returned", !.result = result, !.ranIn = where,
                            !.events = Append(pyCall[c].events, event)]
  BY <1>1 DEF Called
<1>4. /\ r \in Called /\ r.at = "returned" /\ r.ranIn = where
      /\ r.dir = pyCall[c].dir /\ r.target = pyCall[c].target
  BY <1>1, <1>2, <1>3 DEF Called
<1>5. pyCall' = [pyCall EXCEPT ![c] = r]
  BY <1>1 DEF Ended, PyInv, Called
<1>6. r.target = "sandbox" => Inside(r.dir, AllowedRoots)
  BY <1>4 DEF PyInv, InSandbox
<1> HIDE DEF r
<1> QED BY <1>4, <1>5, <1>6, CallMoves

(***************************************************************************)
(* The steps                                                               *)
(***************************************************************************)
LEMMA PyInitially == PyInit => PyInv
BY DEF PyInit, PyInv, NoBox, NotCalled, InSandbox, RunsWhereAsked

\* A run in a subprocess of the tool, or on the host.
LEMMA LocalSafe ==
  ASSUME PyInv, NEW c \in PyCalls, pyCall[c].at # "idle", UNCHANGED pyBox,
         \/ Step(c, "raised")
         \/ Ended(c, RunLocally(pyCall[c].job, pyCall[c].limit), pyCall[c].dir)
  PROVE  PyInv'
<1>1. pyCall[c].dir \in Places
  BY MadeIsCalled DEF Called, Places
<1>2. RunLocally(pyCall[c].job, pyCall[c].limit) \in Results
  BY RunsHaveResults
<1>3. CASE Step(c, "raised")
  BY <1>3, StepSafe
<1>4. CASE Ended(c, RunLocally(pyCall[c].job, pyCall[c].limit), pyCall[c].dir)
  BY <1>1, <1>2, <1>4, EndSafe
<1> QED BY <1>3, <1>4

\* A run in the container, at the place its path leads to.
LEMMA SandboxedSafe ==
  ASSUME PyInv, NEW c \in PyCalls, RunSandboxed(c)
  PROVE  PyInv'
<1> DEFINE path == HostPath(pyCall[c].dir)
<1>1. pyCall[c].at = "placed" /\ UNCHANGED pyBox /\ InSandbox(c) /\ pyBox.known
  BY DEF RunSandboxed, PyInv
<1>2. pyCall[c].at # "idle" /\ pyCall[c].dir \in PyAsked
  BY <1>1, MadeIsCalled DEF Called
<1>3. CASE Step(c, "raised")
  BY <1>1, <1>2, <1>3, StepSafe
<1>4. CASE Ended(c, Result(FALSE, FALSE, 126), NowhereYet)
  <2>1. Result(FALSE, FALSE, 126) \in Results
    BY DEF Result, Results
  <2>2. NowhereYet \in Places
    BY DEF Places
  <2> QED BY <1>1, <1>2, <1>4, <2>1, <2>2, EndSafe
<1>5. CASE path \in PyDirs /\ Ended(c, RunInContainer(pyCall[c].job, pyCall[c].limit), path)
  <2>1. RunInContainer(pyCall[c].job, pyCall[c].limit) \in Results /\ path \in Places
    BY <1>5, RunsHaveResults DEF Places
  <2>2. PICK d \in PyCalls : InSandbox(d) /\ pyBox.mount = MountRoot(pyCall[d].dir)
    BY <1>1 DEF PyInv
  <2>3. pyCall[d].dir \in PyAsked
    BY <2>2, MadeIsCalled DEF Called, InSandbox
  <2>4. AllowedRoots # {} => Around(pyCall[c].dir) # {}
    BY <1>1 DEF PyInv, Inside, Around
  <2>5. path # pyCall[c].dir /\ AllowedRoots # {} => Around(pyCall[d].dir) # Around(pyCall[c].dir)
    BY <1>2, <2>2, <2>3, <2>4, SameRoots DEF HostPath
  <2> QED BY <1>1, <1>2, <1>5, <2>1, <2>2, <2>5, EndSafe
<1> QED BY <1>3, <1>4, <1>5 DEF RunSandboxed

\* A new call.
LEMMA CallSafe ==
  ASSUME PyInv, NEW c \in PyCalls, NEW job \in PyJobs, NEW dir \in PyAsked, NEW host \in BOOLEAN,
         HandleToolCall(c, job, dir, host), pyTimeout \in PyTimeouts
  PROVE  PyInv'
<1> DEFINE r == Begun(job, dir, ExecutionTarget(dir, host))
<1>1. ExecutionTarget(dir, host) \in {"host", "sandbox", "refused"}
      /\ (ExecutionTarget(dir, host) = "sandbox" => Inside(dir, AllowedRoots))
  BY DEF ExecutionTarget
<1>2. Done \in Results
  BY DEF Done, Result, Results
<1>3. NowhereYet \in Places /\ <<>> \in Seq(Events) /\ <<"started">> \in Seq(Events)
  BY DEF Places, Events
<1>4. r \in Called /\ r.dir = dir /\ r.target = ExecutionTarget(dir, host) /\ r.at \in {"refused", "started"}
  BY <1>1, <1>2, <1>3 DEF Begun, Called
<1>5. pyCall' = [pyCall EXCEPT ![c] = r] /\ pyBox' = pyBox /\ pyCall[c].at = "idle"
  BY DEF HandleToolCall
<1> HIDE DEF r
<1> QED BY <1>1, <1>4, <1>5, CallMoves

PyFullInv == PyInv /\ pyTimeout \in PyTimeouts

\* Every step preserves the invariant.
LEMMA PyStep == PyFullInv /\ [PyNext]_pyVars => PyFullInv'
<1> SUFFICES ASSUME PyInv, pyTimeout \in PyTimeouts, [PyNext]_pyVars PROVE PyFullInv'
  BY DEF PyFullInv
<1>1. ASSUME NEW c \in PyCalls, NEW job \in PyJobs, NEW dir \in PyAsked, NEW host \in BOOLEAN,
             HandleToolCall(c, job, dir, host)
      PROVE  PyFullInv'
  BY <1>1, CallSafe DEF HandleToolCall, PyFullInv
<1>2. ASSUME NEW c \in PyCalls, RunOnHost(c) \/ RunWithoutManager(c) \/ RunLocalFallback(c)
      PROVE  PyFullInv'
  <2>1. pyCall[c].at # "idle" /\ UNCHANGED <<pyBox, pyTimeout>>
    BY <1>2 DEF RunOnHost, RunWithoutManager, RunLocalFallback
  <2>2. \/ Step(c, "raised")
        \/ Ended(c, RunLocally(pyCall[c].job, pyCall[c].limit), pyCall[c].dir)
    BY <1>2 DEF RunOnHost, RunWithoutManager, RunLocalFallback, Local
  <2> QED BY <2>1, <2>2, LocalSafe DEF PyFullInv
<1>3. ASSUME NEW c \in PyCalls, ReuseBox(c) PROVE PyFullInv'
  BY <1>3, StepSafe DEF ReuseBox, PyFullInv
<1>4. ASSUME NEW c \in PyCalls, CreateBox(c) PROVE PyFullInv'
  <2>1. PICK up \in {TRUE, pyRuntime = "memory"} :
          /\ pyBox' = [mount |-> MountRoot(pyCall[c].dir), up |-> up, known |-> TRUE]
          /\ Step(c, IF up THEN "placed" ELSE "raised")
    BY <1>4 DEF CreateBox
  <2>2. pyCall[c].at # "idle" /\ pyCall[c].target = "sandbox" /\ UNCHANGED pyTimeout
    BY <1>4 DEF CreateBox
  <2>3. pyBox'.known /\ pyBox'.mount = MountRoot(pyCall[c].dir)
    BY <2>1
  <2>4. Step(c, "placed") \/ Step(c, "raised")
    BY <2>1
  <2> QED BY <2>2, <2>3, <2>4, StepSafe DEF PyFullInv
<1>5. ASSUME NEW c \in PyCalls, RunSandboxed(c) PROVE PyFullInv'
  BY <1>5, SandboxedSafe DEF RunSandboxed, PyFullInv
<1>6. CASE ReloadTimeout
  BY <1>6 DEF ReloadTimeout, PyFullInv, PyInv, RunsWhereAsked, InSandbox
<1>7. CASE UNCHANGED pyVars
  BY <1>7 DEF pyVars, PyFullInv, PyInv, RunsWhereAsked, InSandbox
<1> QED BY <1>1, <1>2, <1>3, <1>4, <1>5, <1>6, <1>7 DEF PyNext

\* A call runs in the directory it asked for, though the container may have been
\* created for another call, as long as all calls lie below the same roots.
THEOREM CallsRunWhereAsked == PythonSpec => []RunsWhereAsked
<1>1. PyInit => PyFullInv
  BY PyInitially DEF PyInit, PyFullInv
<1>2. PyFullInv => RunsWhereAsked
  BY DEF PyFullInv, PyInv
<1> QED BY <1>1, <1>2, PyStep, PTL DEF PythonSpec
=============================================================================
