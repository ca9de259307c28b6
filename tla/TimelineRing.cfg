CONSTANTS
  MinCapacity = 3
  MaxCapacity = 4
  DefaultCapacity = 4
  Requests = {0, 1, 9}
  MaxOffered = 8
SPECIFICATION Spec
PROPERTIES
  NoiseEvictsNothing
  ImplementsEventLog
