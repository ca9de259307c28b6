CONSTANTS
  Callers = {t1, t2}
  Clients = {c1, c2}
SPECIFICATION FairSpec
INVARIANT PausedIsOwned
PROPERTIES
  ImplementsPausable
  UnloadEnds
CHECK_DEADLOCK FALSE
