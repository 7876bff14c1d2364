SPECIFICATION StoreSpec
CONSTANTS
  Prices <- TwoPrices
  MaxTime = 2
  MaxAsks = 3
  MaxCrashes = 1
  WriteErrors = TRUE
INVARIANT StandsUntilDue
INVARIANT IdsDiffer
INVARIANT WakesOnce
