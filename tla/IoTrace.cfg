CONSTANTS
  Callers = {c1, c2, c3}
  Targets = {t1, t2}
SPECIFICATION FairSpec
INVARIANT HooksAreOwned
PROPERTIES
  ImplementsTrace
  UnloadEnds
CHECK_DEADLOCK FALSE
