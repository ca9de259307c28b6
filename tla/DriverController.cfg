CONSTANTS
  Files = {f1, f2, f3}
  Processes = {p1, p2}
  Threads = {h1, h2}
SPECIFICATION FairSpec
INVARIANTS
  AllOrNothing
  PushersAreSafe
PROPERTIES
  ImplementsLease
  OnlyOwnerStops
  CleanupsEnd
CHECK_DEADLOCK FALSE
