CONSTANTS
  near = near
  far = far
  calls = calls
  Contracts = {near, far}
  Family <- MCFamily
  Entry <- MCEntry
  AtFirst <- MCAtFirst
  Trades <- MCTrades
  Markets <- MCMarkets
  Shares = {0, 35}
  Standing = 2
  Listed = 1
  MaxOrders = 3
  MaxTrades = 1
  MaxFaults = 2
SPECIFICATION WatchSpec
PROPERTIES
  OnlyShrinks
  NeverLockedOut
CHECK_DEADLOCK FALSE
