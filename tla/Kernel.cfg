SPECIFICATION Spec
CONSTANTS
  t1 = t1
  t2 = t2
  Idle = Idle
  NoThread = NoThread
  Threads <- MCThreads
  List <- MCList
  BasePrio <- MCBasePrio
  Ceiling = 3
  Slice = 4
  WakeUp = 1
  MaxDelay = 1
  EndOfTime = 12
  Scoped = {t2}
  Resumers = {t1}
  Interrupted = {t2}
  Eventful = {t2}
  Overflowing = {t1}
  Watched = t2
INVARIANTS TypeOK NoReturnWhileSuspended UrgentWaitBounded
PROPERTIES SwitchOnlyToReady
