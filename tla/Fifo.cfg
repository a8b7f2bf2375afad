SPECIFICATION BlockSpec
CONSTANTS
  Values = {v1, v2}
  Size = 4
  Garbage = Garbage
  Refused = Refused
INVARIANTS NoSharedEntry BlocksApart TakenFromHead
PROPERTIES QueueSpec
