\* Two projects, two calls and a fault; one server with two sessions; two files and three edits; two tool files.
SPECIFICATION FairSpec
CONSTANTS
  p1 = p1
  p2 = p2
  dev = dev
  ext = ext
  mcp = mcp
  Projects = {p1, p2}
  FirstProject = p1
  RuntimeNames = {dev, ext, mcp}
  AgentsOf <- MCAgentsOf
  ToolsOf <- MCToolsOf
  External = {ext}
  McpRuntime = mcp
  Calls = {start, other}
  Boot = start
  MaxFaults = 1
  Servers = {git}
  McpSessions = {s1, s2}
  MaxReloads = 3
  MaxLaunches = 2
  ConfigFiles = {f1, f2}
  ConfigTexts = {1, 2, 3}
  BrokenTexts = {2}
  MaxEdits = 3
  ConfigNames = {system, fs}
  ToolNames = {fs}
  MaxBackups = 4
  MaxTears = 2
  Primary = primary
  Fallback = spare
  NoModel = NoModel
  Attempts = 2
  Window = 3
  Retained = 1
  MaxHeard = 2
  MaxMade = 5
  MaxRuns = 2
  LoopChannels = {chan}
  Speakers = {x, y}
  Sayings = {t1, t2}
  WorkStates = {u1, u2}
  LoopConfigs <- MCLoopConfigs
  PyCalls = {c1, c2}
  PyDirs <- MCPyDirs
  PyAsked <- MCAsked
  AllowedRoots <- MCRoots
  HostRoots = {}
  HostWorkers = {TRUE, FALSE}
  PyRuntimes = {"docker", "memory", "none"}
  PyTimeouts = {1, 2}
  OsTimeout = 3
  PyJobs <- MCJobs
  MaxPyReloads = 1
INVARIANTS
  RunningIsOfProject
  RunningIsListed
  SettingsAreKept
  OpenChannelMovesOn
  RunsWhereAsked
PROPERTIES
  ChangeIsApplied
  MemoryIsKept
  AgentHearsAgain
CHECK_DEADLOCK FALSE
