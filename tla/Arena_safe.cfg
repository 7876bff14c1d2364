CONSTANTS
  near = near
  far = far
  ratio = ratio
  hedge = hedge
  spy = spy
  Contracts = {near, far}
  Roots = {spy}
  Multiplier = 1
  Start = 4
  PerContract = 0
  Names = {"n", "m"}
  Books = {b1}
  Callers = {k1, k2}
  Kinds = {ratio, hedge}
  Limits = {0}
  Sizes = {0}
  Unders = {0, 3}
  Prices = {4}
  MaxOrders = 2
  MaxTime = 1
  Term <- MCTerm
  Shape <- MCShape
  Markets <- MCMarkets
SYMMETRY Alike
SPECIFICATION Spec
INVARIANTS
  LossIsBacked
  SizeIsShared
  BookAddsUp
  OneOrderPerName
PROPERTIES
  FillsOnTime
  ImplementsOrderLife
