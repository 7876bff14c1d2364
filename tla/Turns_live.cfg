SPECIFICATION FairSpec
CONSTANTS
  Tellers = {"room"}
  Room = "room"
  Clock = "clock"
  MaxTurns = 1
  EventBuffer = 1
  InterruptAttempts = 3
  BrokerlessLimit = 1
  MaxCrashes = 1
  TurnLimited = TRUE
  ReportsToolCalls = TRUE
  AgentErrors = TRUE
  StoreErrors = TRUE
PROPERTY EveryTurnIsLetGo
PROPERTY ThePlaceIsGivenUp
