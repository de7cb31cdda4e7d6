\* No crash; the clock, the ticker and the batch goroutines are fair.
CONSTANTS
  MaxDay = 1
  HoursPerDay = 2
  SyncEvery = 2
  MaxEvents = 4
  NoBatch = NoBatch
  CrashMayHappen = FALSE
  LateRecords = FALSE
SPECIFICATION FairSpec
PROPERTY EveryLineCommitted
