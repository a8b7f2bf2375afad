SPECIFICATION FairSpec
CONSTANTS
  Wrap = 3
  MaxTime = 7
  Events = {e1}
  e1 = e1
  TimeEventList <- MCTimeEventList
  EndOfTime = 20
  Periods = {2}
  Delays = {0, 2}
  Reactivated = {e1}
  FromInterrupts = {e1}
INVARIANTS ReadingInCall NeverEarly ActivationExact OnBeat
PROPERTIES EventuallyPropagated
