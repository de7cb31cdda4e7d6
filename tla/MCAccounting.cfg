\* Crashes and kernel writeback; handlers may outlive the shutdown deadline
\* and Record after Close.
CONSTANTS
  MaxDay = 1
  HoursPerDay = 2
  SyncEvery = 3
  MaxEvents = 5
  NoBatch = NoBatch
  CrashMayHappen = TRUE
  LateRecords = TRUE
SPECIFICATION Spec
INVARIANTS
  CrashLossBounded
