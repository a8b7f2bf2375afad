SPECIFICATION FairSpec
CONSTANTS
  a = a
  b = b
  c = c
  Nobody = Nobody
  Nodes <- MCNodes
  Links <- MCLinks
  MaxNumberOfNodes = 1
  MaxSteps = 2
  Window = 1
  Publishers = {a, b}
  Restarting = {a}
  MaxTime = 3
  MaxMessages = 2
  MaxRestarts = 1
  MaxFaults = 1
INVARIANTS AtMostOnce ProtectorLeft
CHECK_DEADLOCK FALSE
PROPERTIES NothingNewDropped ComesToRest
