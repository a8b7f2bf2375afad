SPECIFICATION Spec
CONSTANTS
  t1 = t1
  t2 = t2
  t3 = t3
  Idle = Idle
  None = None
  NoThread = NoThread
  Threads <- MCThreads
  Sems = {s1}
  Priorities <- MCDifferentOrEqual
  Order <- MCOrder
  Ceiling = 4
  MaxEnter = 2
  Reenterers = {t2}
INVARIANTS MutualExclusion NoForgottenWaiter RestoredUnlessReentered
 
CONSTRAINT UntilOvertaken
