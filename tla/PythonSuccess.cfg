\* Code and installations that end in every way, run in the shared sandbox.
SPECIFICATION PySpec
CONSTANTS
  PyCalls = {c1, c2}
  PyDirs <- MCPyDirs
  PyAsked <- MCAsked
  AllowedRoots <- MCRoots
  HostRoots = {}
  HostWorkers = {FALSE}
  PyRuntimes = {"docker", "memory", "none"}
  PyTimeouts = {1, 2}
  OsTimeout = 3
  PyJobs <- MCEveryEnding
  MaxPyReloads = 0
INVARIANT SuccessMeansExitZero
CHECK_DEADLOCK FALSE
