\* Three turns, and the user's requests about sessions and a restart between any two awaits of them.
SPECIFICATION FairChatSpec
CONSTANTS
  MaxSessions = 3
  MaxTasks = 9
  MaxTokens = 9
  MaxClosing = 1
  IdleTimeout = FALSE
  Kinds <- Conversation
  MaxRequests = 2
  MaxBoots = 1
  MaxHistory = 4
  RetainRecent = 2
  MaxIterations = 2
  CostThreshold = 2
INVARIANTS
  TranscriptIsTheLog
  ReplyFollowsQuestion
  HistoryStaysInSession
  AnsweredTurnIsRemembered
PROPERTIES
  LoopSurvivesItsTurns
  StatusReturnsToIdle
CHECK_DEADLOCK FALSE
