\* Crashes and failed copy, fsync and unlink calls.
CONSTANTS
  f1 = f1  f2 = f2  f3 = f3
  Files <- MCFiles
  Old <- MCOld
  Order <- MCOrder
  MayFail = TRUE
  MaxCrashes = 2
  MaxFailures = 2
SPECIFICATION Spec
INVARIANT
  NoLogLost
