SPECIFICATION Spec
CONSTANTS
  Orders <- OneOrder
  Closing = {}
  NoFloorLoss = {}
  Sets <- OneSet
  PerSet <- PerSetOf
  Named = {"put"}
  Ask <- AskOf
  Floor <- FloorOf
  Prices <- MCPrices
  AlreadyHeld = 0
  Books = {6}
  Ceilings = {}
  Fuses = {FALSE}
  Every = 2
  Patience = 5
  Step = 1
  Stride = "arrive"
  PassLimit = 1
  MaxTime = 11
  MayMiss = TRUE
  BrokerErrors = TRUE
  MaxRestarts = 1
INVARIANT FloorIsKept
INVARIANT PatienceEnds
INVARIANT PatienceEndsAtTheFloor
