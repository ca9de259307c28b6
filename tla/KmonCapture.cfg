CONSTANTS
  k1 = k1
  k2 = k2
  Keys <- MCKeys
  KernelKeys <- MCKernelKeys
  Pages <- MCPages
  FirstLimit = 1
  ContinuedLimit = 1
  PageLimit = 2
  EventLimit = 2
  Gate = 1
  ImmediateGate = 2
  EventGate = 1
  Budget = 2
  Burst = 2
  Quantum = 2
  MaxDirect = 1

SPECIFICATION FairSpec
INVARIANTS
  InFlightOnce
  BytesAreFiles
PROPERTIES
  RequestsEnd
  StopEnds
CHECK_DEADLOCK FALSE
