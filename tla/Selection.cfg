SPECIFICATION Spec
CONSTANTS
  t1 = t1
  t2 = t2
  t3 = t3
  Idle = Idle
  Threads <- MCThreads
  List <- MCList
  EndOfTime = 2
  MaxPrio = 2
  MaxCount = 1
INVARIANTS SelectedIsReady MostUrgentSelected EarliestCovers
