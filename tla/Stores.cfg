\* Two or three of each: sessions, instruction files, calls of models, stored files, files of a mount, keys, source files, texts, log entries, messages.
SPECIFICATION Spec
CONSTANTS
  MaxSessions = 2
  MaxTasks = 2
  MaxTokens = 1
  MaxClosing = 2
  IdleTimeout = TRUE
  agents = agents
  a = a
  b = b
  c = c
  Instructions = agents
  Included = {a, b, c}
  Texts <- MCTexts
  MaxIncludeDepth = 2
  MaxIncludeFiles = 3
  MaxEdits = 2
  MaxPrompts = 2
  m1 = m1
  m2 = m2
  Models = {m1, m2}
  Agents = {x, y}
  Sessions = {s1}
  Catalogs <- MCCatalogs
  Unusable = Unusable
  Threshold = 2
  MaxCalls = 4
  QueryLimit = 3
  FileIds = {f1, f2}
  FileNames = {n1}
  Bindings = {s1}
  Rounds = {r1}
  MaxStops = 1
  reader1 = reader1
  writer1 = writer1
  FsAgents = {reader1, writer1}
  FsPaths <- MCPaths
  FsDirs <- MCDirs
  Denied <- MCDenied
  FsTexts = {t1, t2}
  MountConfigs <- MCMounts
  AgentAccess <- MCAccess
  Watches <- MCWatches
  MaxFsChanges = 3
  MaxSubs = 2
  Keys = {k1, k2}
  KVSessions = {s1}
  KVClients = {c1, c2}
  MaxSets = 3
  py = py
  java = java
  jsx = jsx
  txt = txt
  link = link
  load = load
  saveAll = saveAll
  CodePaths = {py, java, jsx, txt, link}
  Languages <- MCLangs
  PartsOf <- MCParts
  RootParts = {"home"}
  ExcludedDirs = {"build"}
  Contents <- MCContents
  NamesInPath <- MCInPath
  Holders <- MCHolders
  PathRank <- MCRank
  SearchLimit = 1
  LinksOut = {link}
  NoFile = NoFile
  MaxSaves = 3
  MaxIndexes = 2
  doc = doc
  code = code
  conf = conf
  SearchFiles = {doc, code, conf}
  GroupOf <- MCGroups
  FileTexts <- MCFileTexts
  Requests <- MCRequests
  RgRequests = {q1}
  RgMatches = {0, 1, 2}
  MaxMatches = 1
  NoIndex = NoIndex
  MaxRewrites = 1
  LogAgents = {x, y}
  RetentionDays = 1
  PageSize = 1
  MaxEntries = 3
  MaxDays = 1
  MaxStarts = 1
  Bodies <- MCBodies
  MaxMessages = 3
  MaxTorn = 1
INVARIANTS
  SessionRecordAgrees
  IncludesAreTheReachableFiles
  StoredFilesAreThere
  SoleWatcherIsTold
  PersistentSurvivesCleanup
  IndexFollowsDisk
  ExcerptsHoldTheirLines
  LogsAreRead
  TranscriptReadsBack
PROPERTIES
  PromptIsFresh
  HistoryKeepsTheNewest
  WarningNamesTheDearest
SYMMETRY Symmetric
CHECK_DEADLOCK FALSE
