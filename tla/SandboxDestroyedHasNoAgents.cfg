\* An allocation during the destruction of the shared sandbox.
SPECIFICATION Spec
CONSTANTS
  t1 = t1
  t2 = t2
  t3 = t3
  a = a
  b = b
  Tasks = {t1, t2, t3}
  Agents = {a, b}
  AgentOf <- MCAgentOf
  Resets = {}
  Quota = 2
  MaxBoxes = 4
INVARIANT DestroyedHasNoAgents
CHECK_DEADLOCK FALSE
