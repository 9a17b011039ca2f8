\* Two batch ids, overlapping expectations, three events; one watched agent, no channels.
SPECIFICATION Spec
CONSTANTS
  a1 = a1
  a2 = a2
  Batches = {b1, b2}
  Agents = {a1}
  Publishers = {a1, a2}
  Channels = {}
  Expectable <- BothAndOne
  MaxExpects = 2
  MaxEvents = 3
  MaxQueue = 2
  MaxStarts = 1
SYMMETRY Symmetric
INVARIANTS CompleteIsWhole CollectedOnce
CHECK_DEADLOCK FALSE
