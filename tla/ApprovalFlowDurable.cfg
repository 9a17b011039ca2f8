\* Learned rules against later decisions, restarts and edits by hand of the file.
SPECIFICATION Spec
CONSTANTS
  x = x
  y = y
  Agents = {a1}
  Actions = {x}
  Requests = {r1, r2}
  Calls = {k1, k2}
  Decisions = {"approve_session", "always_allow", "always_ask", "deny_permanently"}
  Scopes = {"exact"}
  Cover <- MCCoverExact
  Overrides = {{}}
  InitialRules <- NoRules
  MaxEra = 1
  MaxEdits = 1
SYMMETRY Symmetric
INVARIANT DurableDecisionsHold
CHECK_DEADLOCK FALSE
