CONSTANTS
  low = low
  high = high
  put = put
  later = later
  spy = spy
  qqq = qqq
  Contracts = {low, high, put, later}
  Term <- MCTerm
  Roots = {spy}
  Multiplier = 2
  NoFloor = NoFloor
  Staged = {low, high}
  Dark = {high}
  None = None
  Refused = Refused
  Symbols = {spy, qqq}
  Underlying = spy
  Worth <- MCWorth
  Session = 4
  Orders <- MCOrders
  Accounts <- MCAccounts
  Scenarios <- MCScenarios
  RealMarkets <- MCMarkets
  NoPrice = NoPrice
  NameLimit = 14
  StampSize = 3
  FloorSize = 2
  Walks <- MCWalks
  Books <- MCBooks
  Leasts = {10, NoPrice}
  Strides = {1, 2}
  MaxElapsed = 5
  PerContract = 1
  Start = 40
  Trades <- MCTrades
  Readings <- MCReadings
  Ends = {2, 5}
  MaxTrades = 4
  Nothing = Nothing
SPECIFICATION Spec
INVARIANTS
  WorstIsTheWorst
  SumCoversTheBook
  OneReality
  WorstPriceTravels
  ProfitAddsUp
  AccountIsHonest
PROPERTIES
  NoTeleport
CHECK_DEADLOCK FALSE
