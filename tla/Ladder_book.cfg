SPECIFICATION Spec
CONSTANTS
  Orders <- ThreeOrders
  Closing = {"close"}
  NoFloorLoss = {"call"}
  Sets <- SetsOf
  PerSet <- PerSetOf
  Named = {}
  Ask <- AskOf
  Floor <- FloorOf
  Prices = {}
  AlreadyHeld = 2
  Books = {6}
  Ceilings = {3}
  Fuses = {TRUE, FALSE}
  Every = 1
  Patience = 1
  Step = 1
  Stride = "arrive"
  PassLimit = 0
  MaxTime = 1
  MayMiss = FALSE
  BrokerErrors = TRUE
  MaxRestarts = 0
INVARIANT BookHolds
