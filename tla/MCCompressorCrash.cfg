\* One crash, nothing fails; the ticker and the goroutine are fair.
CONSTANTS
  f1 = f1  f2 = f2  f3 = f3
  Files <- MCFiles
  Old <- MCOld
  Order <- MCOrder
  MayFail = FALSE
  MaxCrashes = 1
  MaxFailures = 0
SPECIFICATION FairSpec
PROPERTY EveryOldLogCompressed
