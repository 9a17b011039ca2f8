\* Three tasks, two of one agent; one reset; three sandboxes ever, for a quota of two.
SPECIFICATION Spec
CONSTANTS
  t1 = t1
  t2 = t2
  t3 = t3
  a = a
  b = b
  Tasks = {t1, t2, t3}
  Agents = {a, b}
  AgentOf <- MCAgentOf
  Resets = {r1}
  Quota = 2
  MaxBoxes = 3
INVARIANTS QuotaHolds IsolationHolds OneSharedSandbox ReadySandboxRuns
CHECK_DEADLOCK FALSE
