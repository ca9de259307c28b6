CONSTANTS
  Ids = {i1}
  Capacity = 1
  MaxPending = 1
  Kinds = {"subscribe"}
SPECIFICATION FairSpec
PROPERTY InterruptReturns
CHECK_DEADLOCK FALSE
