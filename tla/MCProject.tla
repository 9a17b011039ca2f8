------------------------------- MODULE MCProject -------------------------------
(* Small instances of what runs in and around a project: its containers, its   *)
(* external MCP servers, the watcher of its configuration and the migration of *)
(* that configuration, its agents, the detector of their loops and the Python  *)
(* tool.  They share no state, so a behaviour exercises one of them.           *)
EXTENDS ProjectRuntime, ExternalMCP, ConfigReload, ConfigMigration, AgentRuntime, LoopDetector,
        MCPythonExec, TLC

CONSTANTS p1, p2, dev, ext, mcp

MCAgentsOf == (p1 :> {dev}) @@ (p2 :> {dev})
MCToolsOf == (p1 :> {ext}) @@ (p2 :> {})

MCLoopConfigs == {[enabled |-> TRUE, window |-> 5, threshold |-> 2],
                  [enabled |-> TRUE, window |-> 4, threshold |-> 1],
                  [enabled |-> FALSE, window |-> 5, threshold |-> 2]}

VARIABLE focus   \* the part a behaviour exercises

vars == <<runtimeVars, mcpVars, reloadVars, migrationVars, agentVars, loopVars, pyVars, focus>>

Init ==
  /\ RuntimeInit /\ McpInit /\ ReloadInit /\ MigrationInit /\ AgentInit /\ LoopInit /\ PyInit
  /\ focus \in {"containers", "servers", "reload", "migration", "agent", "loops", "python"}
  /\ focus # "loops" => ~loopConfig.enabled
  /\ focus # "python" => pyRuntime = "none" /\ ~hostWorker /\ pyTimeout = 1

PollStep ==
  /\ focus = "reload" /\ Poll
  /\ UNCHANGED <<runtimeVars, mcpVars, migrationVars, agentVars, loopVars, pyVars, focus>>
AttemptStep ==
  /\ focus = "agent" /\ AttemptEnds
  /\ UNCHANGED <<runtimeVars, mcpVars, reloadVars, migrationVars, loopVars, pyVars, focus>>

Next ==
  /\ UNCHANGED focus
  /\ \/ focus = "containers" /\ RuntimeNext
     \/ focus # "containers" /\ UNCHANGED runtimeVars
  /\ \/ focus = "servers" /\ McpNext
     \/ focus # "servers" /\ UNCHANGED mcpVars
  /\ \/ focus = "reload" /\ ReloadNext
     \/ focus # "reload" /\ UNCHANGED reloadVars
  /\ \/ focus = "migration" /\ MigrationNext
     \/ focus # "migration" /\ UNCHANGED migrationVars
  /\ \/ focus = "agent" /\ AgentNext
     \/ focus # "agent" /\ UNCHANGED agentVars
  /\ \/ focus = "loops" /\ LoopNext
     \/ focus # "loops" /\ UNCHANGED loopVars
  /\ \/ focus = "python" /\ PyNext
     \/ focus # "python" /\ UNCHANGED pyVars

Spec == Init /\ [][Next]_vars

\* The loop of the watcher polls for ever, and a call of a model ends.
FairSpec == Spec /\ WF_vars(PollStep) /\ WF_vars(AttemptStep)
=============================================================================
