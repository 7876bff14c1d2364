SPECIFICATION Spec
CONSTANTS
  Tellers = {"room"}
  Room = "room"
  Clock = "clock"
  MaxTurns = 2
  EventBuffer = 1
  InterruptAttempts = 2
  BrokerlessLimit = 1
  MaxCrashes = 0
  TurnLimited = TRUE
  ReportsToolCalls = TRUE
  AgentErrors = TRUE
  StoreErrors = FALSE
INVARIANT TypeOK
INVARIANT OpeningIsExclusive
INVARIANT OneTurnUnlessMistaken
INVARIANT TakeoverOnlyOfTheDead
