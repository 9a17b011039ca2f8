\* What lets an action run silently: two agents, exact and folder scopes, a session end.
SPECIFICATION Spec
CONSTANTS
  x = x
  y = y
  Agents = {a1, a2}
  Actions = {x, y}
  Requests = {r1, r2}
  Calls = {k1, k2}
  Decisions = {"allow_once", "approve_session", "always_allow"}
  Scopes = {"exact", "folder"}
  Cover <- MCCover
  Overrides = {}
  InitialRules <- AllowsY
  MaxEra = 1
  MaxEdits = 0
SYMMETRY SymmetricAgents
INVARIANT SilentAllowIsGranted
CHECK_DEADLOCK FALSE
