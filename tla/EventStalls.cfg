\* Two channels and an agent, watched; no batches.
SPECIFICATION FairSpec
CONSTANTS
  a1 = a1
  a2 = a2
  Batches = {}
  Agents = {a1}
  Publishers = {a1}
  Channels = {c1, c2}
  Expectable = {}
  MaxExpects = 0
  MaxEvents = 1
  MaxQueue = 1
  MaxStarts = 1
PROPERTY OverdueIsFlagged
CHECK_DEADLOCK FALSE
