SPECIFICATION FairSpec
CONSTANTS
  t1 = t1
  t2 = t2
  Idle = Idle
  NoThread = NoThread
  Threads <- MCThreads
  List <- MCReversedList
  BasePrio <- MCEqualPrio
  Ceiling = 3
  Slice = 2
  WakeUp = 1
  MaxDelay = 0
  EndOfTime = 4
  Scoped = {}
  Resumers = {}
  Interrupted = {t2}
  Eventful = {}
  Overflowing = {}
  Watched = t2
PROPERTIES EventuallyRuns
