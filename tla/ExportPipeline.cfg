\* A queue of three for two threads, batches of two with one retry.
CONSTANTS
  MaxEvents = 5
  Malformed <- MCMalformed
  Threads = {t1, t2}
  None = None
  MaxQueue = 3
  BatchSize = 2
  MaxRetries = 1
SPECIFICATION Spec
INVARIANTS
  NothingVanishes
  OverflowTakesTheOldest
  DeliveryIsAccounted
PROPERTY FlushEnds
CHECK_DEADLOCK FALSE
