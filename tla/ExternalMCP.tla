------------------------------ MODULE ExternalMCP ------------------------------
(***************************************************************************)
(* The external MCP servers of src/faith_pa/pa/external_mcp.py.  A server  *)
(* is an object of the table _servers with at most one process.  A start   *)
(* awaits the registry and the launch and only then hangs the process on   *)
(* the object it began with; a reload of the configuration puts new        *)
(* objects into the table; a stop awaits the end of the process.           *)
(***************************************************************************)
EXTENDS Naturals, FiniteSets

CONSTANTS Servers,
          McpSessions,
          MaxReloads,     \* bound on the loads of the configuration
          MaxLaunches     \* bound on the launches of processes

ASSUME McpConstants == MaxReloads \in Nat \ {0} /\ MaxLaunches \in Nat

VARIABLES config,     \* the files: of each server, absent, disabled or enabled
          generation, \* the loads so far
          table,      \* of each server, the generation of its object, or 0
          object,     \* the objects: enabled, process (0 if none) and session
          alive,      \* the processes that run, with their server
          launched,   \* number of processes so far
          starting,   \* starts that await the registry or the launch
          stopping,   \* stops that await the end of a process
          runtime,    \* the servers the runtime container was started for
          tangled     \* servers whose starts overlapped, or that a reload hit

mcpVars == <<config, generation, table, object, alive, launched, starting, stopping, runtime, tangled>>

NewObject(enabled) == [enabled |-> enabled, process |-> 0, session |-> "none"]
Generations == 1..MaxReloads
Present == {n \in Servers : config[n] # "absent"}
Listed == {n \in Servers : table[n] # 0}
Entry(n) == object[n][table[n]]
Runs(p) == \E a \in alive : a.id = p

McpInit ==
  /\ config = [n \in Servers |-> "absent"]
  /\ generation = 0
  /\ table = [n \in Servers |-> 0]
  /\ object = [n \in Servers |-> [g \in Generations |-> NewObject(FALSE)]]
  /\ alive = {} /\ launched = 0
  /\ starting = {} /\ stopping = {} /\ runtime = {} /\ tangled = {}

\* ensure_*_registration, the settings, or the user; a file may be invalid.
EditConfig(n, c) ==
  /\ generation < MaxReloads /\ config[n] # c
  /\ config' = [config EXCEPT ![n] = c]
  /\ UNCHANGED <<generation, table, object, alive, launched, starting, stopping, runtime, tangled>>

\* A bug the runs must notice: the new objects do not take over the processes.
LoadConfigs ==
  /\ generation < MaxReloads
  /\ generation' = generation + 1
  /\ table' = [n \in Servers |-> IF n \in Present THEN generation + 1 ELSE 0]
  /\ object' = [n \in Servers |->
                  [object[n] EXCEPT ![generation + 1] = NewObject(config[n] = "enabled")]]
  /\ tangled' = tangled \cup {x.server : x \in starting}
                  \cup {n \in Listed \ Present : Runs(Entry(n).process)}
  /\ UNCHANGED <<config, alive, launched, starting, stopping, runtime>>

\* reload_configs, and load_configs the first time.  The process of a server
\* whose file is gone is dropped; a start under way keeps the old object.
ReloadConfigs ==
  /\ generation < MaxReloads
  /\ generation' = generation + 1
  /\ table' = [n \in Servers |-> IF n \in Present THEN generation + 1 ELSE 0]
  /\ object' = [n \in Servers |->
                  [object[n] EXCEPT ![generation + 1] =
                     IF n \in Listed
                     THEN [Entry(n) EXCEPT !.enabled = config[n] = "enabled"]
                     ELSE NewObject(config[n] = "enabled")]]
  /\ tangled' = tangled \cup {x.server : x \in starting}
                  \cup {n \in Listed \ Present : Runs(Entry(n).process)}
  /\ UNCHANGED <<config, alive, launched, starting, stopping, runtime>>

\* start_server, up to the registry; the runtime container is started once, for
\* the servers that are listed then.
StartServer(n, s) ==
  /\ n \in Listed /\ Entry(n).enabled /\ ~Runs(Entry(n).process)
  /\ \A x \in starting : ~(x.server = n /\ x.session = s)
  /\ starting' = starting \cup {[server |-> n, at |-> table[n], session |-> s]}
  /\ tangled' = IF \E x \in starting : x.server = n THEN tangled \cup {n} ELSE tangled
  /\ runtime' = IF runtime = {} THEN Listed ELSE runtime
  /\ UNCHANGED <<config, generation, table, object, alive, launched, stopping>>

\* A secret, the registry or the launch fails.
StartServerFails(x) ==
  /\ starting' = starting \ {x}
  /\ UNCHANGED <<config, generation, table, object, alive, launched, stopping, runtime, tangled>>

\* The process is launched and hung on the object.
Launch(x) ==
  /\ launched < MaxLaunches
  /\ launched' = launched + 1
  /\ alive' = alive \cup {[id |-> launched + 1, server |-> x.server]}
  /\ object' = [object EXCEPT ![x.server][x.at].process = launched + 1,
                              ![x.server][x.at].session = x.session]
  /\ starting' = starting \ {x}
  /\ UNCHANGED <<config, generation, table, stopping, runtime, tangled>>

\* ExternalMCPServer.stop: the process of the object is told to end, ...
Stop(n) == [server |-> n, at |-> table[n], process |-> Entry(n).process]
StopServers(ns) ==
  /\ ns # {} /\ \A n \in ns : Runs(Entry(n).process)
  /\ stopping' = stopping \cup {Stop(n) : n \in ns}
  /\ UNCHANGED <<config, generation, table, object, alive, launched, starting, runtime, tangled>>

\* ... in stop_server, in stop_session_servers, and in stop_all, which also
\* forgets the runtime container ...
StopSessionServers(s) == StopServers({n \in Listed : Entry(n).session = s /\ Runs(Entry(n).process)})
StopAllServers ==
  /\ stopping' = stopping \cup {Stop(n) : n \in {m \in Listed : Runs(Entry(m).process)}}
  /\ runtime' = {}
  /\ UNCHANGED <<config, generation, table, object, alive, launched, starting, tangled>>

\* ... the process ends, or is killed after a time-out, or ended on its own, ...
ProcessEnds(a) ==
  /\ alive' = alive \ {a}
  /\ UNCHANGED <<config, generation, table, object, launched, starting, stopping, runtime, tangled>>

\* ... and the object forgets it, whatever process it has by then.
StopReturns(x) ==
  /\ ~Runs(x.process)
  /\ stopping' = stopping \ {x}
  /\ tangled' = IF Runs(object[x.server][x.at].process) THEN tangled \cup {x.server} ELSE tangled
  /\ object' = [object EXCEPT ![x.server][x.at].process = 0, ![x.server][x.at].session = "none"]
  /\ UNCHANGED <<config, generation, table, alive, launched, starting, runtime>>

McpNext ==
  \/ \E n \in Servers : \/ \E c \in {"absent", "disabled", "enabled"} : EditConfig(n, c)
                        \/ \E s \in McpSessions : StartServer(n, s)
                        \/ n \in Listed /\ StopServers({n})
  \/ ReloadConfigs \/ StopAllServers
  \/ \E s \in McpSessions : StopSessionServers(s)
  \/ \E x \in starting : StartServerFails(x) \/ Launch(x)
  \/ \E a \in alive : ProcessEnds(a)
  \/ \E x \in stopping : StopReturns(x)

(***************************************************************************)
(* A process that runs is the process of its server's object in the table, *)
(* so that a stop can reach it, unless starts of the server overlapped, a  *)
(* stop overlapped a start, or a reload met a start or dropped the server. *)
(***************************************************************************)
RunningIsListed ==
  \A a \in alive : \/ a.server \in tangled
                   \/ a.server \in Listed /\ Entry(a.server).process = a.id

(***************************************************************************)
(* ... and so without exception: every process can be stopped.  It does    *)
(* not hold, for the reasons above.                                        *)
(***************************************************************************)
EveryProcessIsListed ==
  \A a \in alive : a.server \in Listed /\ Entry(a.server).process = a.id
=============================================================================
