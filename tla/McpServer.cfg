CONSTANTS
  Ids = {i1, i2}
  Capacity = 1
  MaxPending = 1
  Kinds = {"subscribe"}
SPECIFICATION FairSpec
INVARIANTS
  EventsOutliveThreads
  GateFollowsItsUser
PROPERTIES
  ActiveIsRetained
  ImplementsOperations
  WaiterIsAnswered
  OffReturns
  UnknownSettles
CHECK_DEADLOCK FALSE
