CONSTANTS
  Jobs = {j1, j2}
  Handles = {h1}
  Peers = {p1}
  PeerLockout = 1
  Lockout = 1
  MaxPending = 4
  MaxSerial = 2
SPECIFICATION FairSpec
INVARIANT
  BusyIsTrue
PROPERTIES
  ImplementsCommands
  OffReturns
  ClientsEnd
  WriteOffIsServed
