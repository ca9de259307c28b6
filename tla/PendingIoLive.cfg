CONSTANTS
  Ops = {o1}
  Ios = {i1}
  Reads = {}
  Targets = {t1}
  ClientIds = {c1}
  Modes = {"BOTH"}
  Batches = {}
  MaxTopology = 2
SPECIFICATION FairSpec
PROPERTIES
  HeldGoesOn
  UnloadEnds
  DeadArmIsRetired
CHECK_DEADLOCK FALSE
