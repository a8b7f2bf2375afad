SPECIFICATION WaitingFairSpec
CONSTANTS
  w = w
  r = r
  Idle = Idle
  Nobody = Nobody
  NoCaller = NoCaller
  NoThread = NoThread
  Threads <- MCThreads
  Order <- MCOrder
  Writer = w
  Reader = r
  Client = r
  Server = w
  User = r
  Ceiling = 4
  Capacity = 2
  Conditions = {DataReady}
  Priorities <- MCPriorities
  FifoTimeouts = {"zero", "timed", "forever"}
  Timeouts = {"timed", "forever"}
INVARIANTS NobodyForgotten UnblockFindsOwner FalseOnlyByTimeOut ResponseWakes IoWaitExact
  UntimedSucceeds
PROPERTIES EventuallyWoken
