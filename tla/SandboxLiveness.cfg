\* Sandboxes nobody uses are destroyed.
SPECIFICATION FairSpec
CONSTANTS
  t1 = t1
  t2 = t2
  t3 = t3
  a = a
  b = b
  Tasks = {t1, t2, t3}
  Agents = {a, b}
  AgentOf <- MCAgentOf
  Resets = {r1}
  Quota = 2
  MaxBoxes = 2
PROPERTY EmptySandboxIsDestroyed
CHECK_DEADLOCK FALSE
