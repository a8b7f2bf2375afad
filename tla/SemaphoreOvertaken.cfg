SPECIFICATION Spec
CONSTANTS
  t1 = t1
  t2 = t2
  t3 = t3
  Idle = Idle
  None = None
  NoThread = NoThread
  Threads <- MCThreads
  Sems = {s1}
  Priorities <- MCEqual
  Order <- MCOrder
  Ceiling = 2
  MaxEnter = 1
  Reenterers = {}
INVARIANTS OneOwner
