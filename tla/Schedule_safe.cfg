SPECIFICATION Spec
CONSTANTS
  Names = {"scan", "close"}
  People = {"ana"}
  Files <- MCFiles
  DayLength = 5
  MaxTime = 6
  PassLimit = 1
  MaxCrashes = 1
  StoreErrors = TRUE
INVARIANT TypeOK
INVARIANT MarkedMeansTold
 
