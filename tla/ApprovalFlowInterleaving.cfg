\* Two requests, two overlapping answers, one session end or restart.
SPECIFICATION FairSpec
CONSTANTS
  x = x
  y = y
  Agents = {a1}
  Actions = {x}
  Requests = {r1, r2}
  Calls = {k1, k2}
  Decisions = {"allow_once", "deny_once", "approve_session", "deny_permanently"}
  Scopes = {"exact"}
  Cover <- MCCoverExact
  Overrides = {}
  InitialRules <- NoRules
  MaxEra = 1
  MaxEdits = 0
INVARIANTS FirstAuditWins AnswerReachesItsRequest
PROPERTIES GateSpec CallersReturn
CHECK_DEADLOCK FALSE
