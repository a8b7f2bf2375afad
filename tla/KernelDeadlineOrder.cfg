SPECIFICATION Spec
CONSTANTS
  t1 = t1
  t2 = t2
  Idle = Idle
  NoThread = NoThread
  Threads <- MCThreads
  List <- MCReversedList
  BasePrio <- MCBasePrio
  Ceiling = 3
  Slice = 5
  WakeUp = 1
  MaxDelay = 2
  EndOfTime = 20
  Scoped = {}
  Resumers = {}
  Interrupted = {}
  Eventful = {}
  Overflowing = {}
  Watched = t2
INVARIANTS DeadlineOverrunBounded
