CONSTANTS
  Ops = {o1, o2}
  Ios = {i1, i2}
  Reads = {i1}
  Targets = {t1}
  ClientIds = {c1}
  Modes = {"DRAIN_PAIR", "BOTH"}
  Batches = {2}
  MaxTopology = 2
SYMMETRY PendingSymmetry
SPECIFICATION Spec
INVARIANTS
  NobodyUsesFreed
  SweepsAreFinal
PROPERTIES
  NewWorkIsCurrent
  ImplementsHeldRequests
CHECK_DEADLOCK FALSE
