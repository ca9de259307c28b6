CONSTANTS
  RingCapacity = 2
  QueueCapacity = 2
  CollectLimit = 2
  DrainLimit = 1
  Attempts = 2
  MaxSequence = 3
  MaxGeneration = 3
SPECIFICATION IngestFairSpec
INVARIANTS
  GapsAreCounted
  StopAccountsForTail
PROPERTIES
  ImplementsFeed
  SourceIsFollowed
CHECK_DEADLOCK FALSE
